---- MODULE Spec2Model ----
(***************************************************************************)
(* Order processing pipeline of order_processor: candidate classification, *)
(* fulfilment-status determination, the supplier assignment model handed   *)
(* to the CP-SAT backend, and the reconciliation of its outcome.           *)
(*                                                                         *)
(* Conventions.  Money is held in integer cents.  A Python Optional is a   *)
(* sequence of length 0 (None) or 1.  shortage_pct is held in hundredths   *)
(* (the code's value, rounded to two decimals, times 100).                 *)
(***************************************************************************)
EXTENDS Integers, Sequences, FiniteSets, TLC

VARIABLES
    config,            \* ProcessorConfig of the OrderProcessor
    payload,           \* raw candidates payload (get_candidates_raw)
    pc,                \* position of process_order
    enriched,          \* enriched payload (filter_and_classify_candidates)
    order_status,      \* local order_status of process_order
    status_details,    \* local status_details of process_order
    solution,          \* value returned by solve_assignment (None = <<>>)
    last_solver_info,  \* self.last_solver_info
    last_solution,     \* self.last_solution
    recorded,          \* assignments written by record_assignment
    result,            \* value returned by process_order (None = <<>>)
    calls,             \* outcomes of the process_order calls that returned
    scale_lines,       \* size of an order of the two-supplier family
    scale_solution     \* solution solve_assignment returns for that order

scalevars == <<scale_lines, scale_solution>>

vars == <<config, payload, pc, enriched, order_status, status_details,
          solution, last_solver_info, last_solution, recorded, result,
          calls, scale_lines, scale_solution>>

----------------------------------------------------------------------------
(* Generic helpers *)

None == <<>>
Some(x) == <<x>>
IsNone(o) == o = <<>>
Val(o) == o[1]

\* Python truthiness of an optional number: None and 0 are falsy.
Truthy(o) == o # <<>> /\ o[1] # 0

RECURSIVE SeqSum(_)
SeqSum(s) == IF s = <<>> THEN 0 ELSE Head(s) + SeqSum(Tail(s))

RECURSIVE FlatSeq(_)
FlatSeq(ss) == IF ss = <<>> THEN <<>> ELSE Head(ss) \o FlatSeq(Tail(ss))

Range(s) == {s[i] : i \in DOMAIN s}

SetMin(S) == CHOOSE x \in S : \A y \in S : x <= y

\* sorted(set): ascending sequence of the elements of a set of integers.
RECURSIVE Sorted(_)
Sorted(S) == IF S = {} THEN <<>> ELSE <<SetMin(S)>> \o Sorted(S \ {SetMin(S)})

\* ceil(a / b) for a >= 0, b > 0
CeilDiv(a, b) == (a + b - 1) \div b

----------------------------------------------------------------------------
(* enums.py *)

MatchStatus == {"ok", "low_confidence", "no_match", "manual_override"}
OrderStatus == {"fully_closed", "partially_closed", "cannot_close"}

----------------------------------------------------------------------------
(* config.py: ProcessorConfig.  insufficient_threshold and price_margin    *)
(* are held in percent.                                                    *)

DefaultConfig ==
    [allow_insufficient |-> TRUE,
     insufficient_threshold |-> 20,
     price_margin |-> None,
     optimization_priority |-> "suppliers_count"]

----------------------------------------------------------------------------
(* Supplier rule sets: rules.constraints and rules.policies of a supplier. *)

NoRules ==
    [min_line_qty |-> None, min_order_amount |-> None,
     blacklisted |-> FALSE, filters |-> <<>>]

Rules(mlq, moa, bl, fl) ==
    [min_line_qty |-> mlq, min_order_amount |-> moa,
     blacklisted |-> bl, filters |-> fl]

\* rules == {} is falsy in `candidate.get("supplier_rules") or ...`
RulesTruthy(o) == o # <<>> /\ o[1] # NoRules

----------------------------------------------------------------------------
(* candidate.py *)

\* The hard rejection codes, in the order the steps append them.
HardReasons ==
    {"insufficient_quantity", "below_min_line_qty", "price_above_margin",
     "supplier_blacklisted", "filtered_out_by_policy"}

\* round(shortage_pct * 100, 2) of (requested - available) / requested,
\* in hundredths.
ShortagePct(qty_requested, qty_available) ==
    (((qty_requested - qty_available) * 100000) \div qty_requested + 5) \div 10

\* Variant of IsCandidateAvailable that returns the shortage as the
\* fraction (requested - available) / requested instead of a percentage.
IsCandidateAvailableFraction(cfg, qty_requested, qty_available) ==
    IF IsNone(qty_available) THEN <<TRUE, None>>
    ELSE IF Val(qty_available) >= qty_requested THEN <<TRUE, None>>
    ELSE IF cfg.allow_insufficient
            /\ (qty_requested - Val(qty_available)) * 100
                 <= cfg.insufficient_threshold * qty_requested
         THEN <<TRUE,
                Some(ShortagePct(qty_requested, Val(qty_available)) \div 100)>>
         ELSE <<FALSE,
                Some(ShortagePct(qty_requested, Val(qty_available)) \div 100)>>

\* Variant of IsCandidateAvailable that tolerates only shortages strictly
\* below insufficient_threshold.
IsCandidateAvailableStrict(cfg, qty_requested, qty_available) ==
    IF IsNone(qty_available) THEN <<TRUE, None>>
    ELSE IF Val(qty_available) >= qty_requested THEN <<TRUE, None>>
    ELSE IF cfg.allow_insufficient
            /\ (qty_requested - Val(qty_available)) * 100
                 < cfg.insufficient_threshold * qty_requested
         THEN <<TRUE, Some(ShortagePct(qty_requested, Val(qty_available)))>>
         ELSE <<FALSE, Some(ShortagePct(qty_requested, Val(qty_available)))>>

\* is_candidate_available: <<is_available, shortage_pct>>
IsCandidateAvailable(cfg, qty_requested, qty_available) ==
    IF IsNone(qty_available) THEN <<TRUE, None>>
    ELSE IF Val(qty_available) >= qty_requested THEN <<TRUE, None>>
    ELSE IF cfg.allow_insufficient
            /\ (qty_requested - Val(qty_available)) * 100
                 <= cfg.insufficient_threshold * qty_requested
         THEN <<TRUE, Some(ShortagePct(qty_requested, Val(qty_available)))>>
         ELSE <<FALSE, Some(ShortagePct(qty_requested, Val(qty_available)))>>

\* round(min_price * (1 + price_margin), 2), or None
MaxAllowedPrice(cfg, raw_candidates) ==
    IF raw_candidates # <<>> /\ ~IsNone(cfg.price_margin)
    THEN LET min_price == SetMin({raw_candidates[i].price :
                                     i \in DOMAIN raw_candidates})
         IN Some((min_price * (100 + Val(cfg.price_margin)) + 50) \div 100)
    ELSE None

\* supplier_rules of a candidate:
\* candidate.get("supplier_rules") or supplier_meta.get("rules") or {}
SupplierRulesOf(candidate, suppliers) ==
    IF RulesTruthy(candidate.supplier_rules) THEN Val(candidate.supplier_rules)
    ELSE IF candidate.supplier_id \in DOMAIN suppliers
         THEN suppliers[candidate.supplier_id]
         ELSE NoRules

\* The rejection reasons of one candidate, in the order of the checks.
RejectionReasons(cfg, qty, candidate, rules, max_allowed_price) ==
    LET avail == IsCandidateAvailable(cfg, qty, candidate.availability_qty)
        policy_filters ==
            IF candidate.policy_filters # <<>> THEN candidate.policy_filters
            ELSE rules.filters
    IN  (IF ~avail[1] THEN <<"insufficient_quantity">> ELSE <<>>)
        \o (IF Truthy(rules.min_line_qty) /\ qty < Val(rules.min_line_qty)
            THEN <<"below_min_line_qty">> ELSE <<>>)
        \o (IF ~IsNone(max_allowed_price)
               /\ candidate.price > Val(max_allowed_price)
            THEN <<"price_above_margin">> ELSE <<>>)
        \o (IF rules.blacklisted THEN <<"supplier_blacklisted">> ELSE <<>>)
        \o (IF policy_filters # <<>> THEN <<"filtered_out_by_policy">>
            ELSE <<>>)

\* line_total = float(price) * qty and delta_amount =
\* float(min_order_amount) - line_total are binary64 values.  For these
\* <<price, qty, min_order_amount>> of the model's domains the line total
\* equals the min order amount in exact arithmetic, yet the float product
\* falls just below it and delta_amount is a positive residue
\* (0.87 - 0.29 * 3 = 1.1e-16); round(delta_amount, 2) is then 0.0.
DeltaResidues == {<<29, 3, 87>>}

\* For these <<price, qty, min_order_amount>> the float quotient
\* delta_amount / price falls just above the exact integer quotient
\* ((0.87 - 0.29) / 0.29 = 2.0000000000000004) and math.ceil yields one more
\* than the exact ceiling.
QuotientResidues == {<<29, 1, 87>>, <<29, 2, 87>>}

\* delta_amount > 0, as the float subtraction decides it
DeltaPositive(price, qty, min_order_amount) ==
    IF <<price, qty, min_order_amount>> \in DeltaResidues THEN TRUE
    ELSE min_order_amount - price * qty > 0

\* math.ceil(delta_amount / price) if price else None
SuggestedQtyIncrease(price, qty, min_order_amount) ==
    IF price = 0 THEN None
    ELSE IF <<price, qty, min_order_amount>> \in DeltaResidues THEN Some(1)
    ELSE Some(CeilDiv(min_order_amount - price * qty, price)
              + (IF <<price, qty, min_order_amount>> \in QuotientResidues
                 THEN 1 ELSE 0))

\* min_order_amount_details of a candidate, or None when it carries no risk.
MinOrderAmountDetails(qty, candidate, rules) ==
    LET line_total == candidate.price * qty
        delta_amount == Val(rules.min_order_amount) - line_total
    IN  IF Truthy(rules.min_order_amount)
           /\ DeltaPositive(candidate.price, qty, Val(rules.min_order_amount))
        THEN Some([supplier_id |-> candidate.supplier_id,
                   required_amount |-> Val(rules.min_order_amount),
                   actual_amount |-> line_total,
                   delta_amount |-> delta_amount,
                   suggested_qty_increase |->
                       SuggestedQtyIncrease(candidate.price, qty,
                                            Val(rules.min_order_amount))])
        ELSE None

\* A candidate counting every finding, the min order amount risk included,
\* against its eligibility.
EligibleCountingRisk(rejection_reasons, reason_details) ==
    Len(reason_details) = 0

\* eligible_for_solver = len(rejection_reasons) == 0; reason_details, which
\* also holds the min order amount risk, is not consulted.
EligibleForSolver(rejection_reasons, reason_details) ==
    Len(rejection_reasons) = 0

\* candidate_info built by the inner loop of filter_and_classify_candidates
ClassifyCandidate(cfg, item, candidate, suppliers, max_allowed_price) ==
    LET qty == item.qty
        rules == SupplierRulesOf(candidate, suppliers)
        avail == IsCandidateAvailable(cfg, qty, candidate.availability_qty)
        rejection_reasons ==
            RejectionReasons(cfg, qty, candidate, rules, max_allowed_price)
        moa == MinOrderAmountDetails(qty, candidate, rules)
        hard_details == [i \in DOMAIN rejection_reasons |->
                            [code |-> rejection_reasons[i],
                             supplier_id |-> candidate.supplier_id]]
        reason_details ==
            hard_details
            \o (IF IsNone(moa) THEN <<>>
                ELSE <<[code |-> "min_order_amount_risk",
                        supplier_id |-> candidate.supplier_id]>>)
    IN  [supplier_id |-> candidate.supplier_id,
         price |-> candidate.price,
         availability_qty |-> candidate.availability_qty,
         pack_code |-> candidate.pack_code,
         pack_match_status |-> candidate.pack_match_status,
         is_available |-> avail[1],
         sufficient_qty |-> (IsNone(candidate.availability_qty)
                             \/ Val(candidate.availability_qty) >= qty),
         shortage_pct |-> avail[2],
         line_total |-> candidate.price * qty,
         min_order_amount_risk |-> ~IsNone(moa),
         min_order_amount_details |-> moa,
         eligible_for_solver |->
             EligibleForSolver(rejection_reasons, reason_details),
         rejected_reason |-> (IF rejection_reasons # <<>>
                              THEN Some(rejection_reasons[1]) ELSE None),
         rejection_reasons |-> rejection_reasons,
         reason_details |-> reason_details]

\* rejection_summary: every reason code of every candidate is counted.
RejectionSummary(classified) ==
    LET codes == UNION {Range(classified[i].rejection_reasons) :
                           i \in DOMAIN classified}
    IN  [code \in codes |->
            Cardinality({i \in DOMAIN classified :
                            code \in Range(classified[i].rejection_reasons)})]

\* goes_to_solver without the check of the match status.
GoesToSolverAnyMatch(match_status, available_candidates) ==
    Len(available_candidates) > 0

\* goes_to_solver
GoesToSolver(match_status, available_candidates) ==
    match_status \in {"ok", "manual_override"} /\ Len(available_candidates) > 0

\* enriched_item built by the outer loop of filter_and_classify_candidates
ClassifyItem(cfg, item, suppliers) ==
    LET raw_candidates == item.candidates
        max_allowed_price == MaxAllowedPrice(cfg, raw_candidates)
        classified == [i \in DOMAIN raw_candidates |->
                          ClassifyCandidate(cfg, item, raw_candidates[i],
                                            suppliers, max_allowed_price)]
        available_candidates ==
            SelectSeq(classified, LAMBDA c : c.eligible_for_solver)
        risky == SelectSeq(classified, LAMBDA c : c.min_order_amount_risk)
    IN  [line_no |-> item.line_no,
         qty |-> item.qty,
         match |-> item.match,
         candidates_raw_count |-> Len(raw_candidates),
         candidates_filtered_count |-> Len(available_candidates),
         candidates_total_count |-> Len(classified),
         candidates_available_count |-> Len(available_candidates),
         candidates |-> available_candidates,
         candidates_all |-> classified,
         rejection_summary |-> RejectionSummary(classified),
         max_allowed_price |-> max_allowed_price,
         min_order_amount_risks |->
             [i \in DOMAIN risky |->
                 [line_no |-> item.line_no,
                  details |-> Val(risky[i].min_order_amount_details)]],
         goes_to_solver |->
             GoesToSolver(item.match.status, available_candidates)]

\* filter_and_classify_candidates
FilterAndClassifyCandidates(cfg, candidates_payload) ==
    LET items == candidates_payload.items
        enriched_items == [i \in DOMAIN items |->
                              ClassifyItem(cfg, items[i],
                                           candidates_payload.suppliers)]
        items_for_solver ==
            Len(SelectSeq(enriched_items, LAMBDA it : it.goes_to_solver))
    IN  [items |-> enriched_items,
         suppliers |-> candidates_payload.suppliers,
         stats |-> [total_items |-> Len(items),
                    items_with_candidates |->
                        Len(SelectSeq(enriched_items,
                                      LAMBDA it : it.candidates_raw_count > 0)),
                    items_for_solver |-> items_for_solver,
                    items_cannot_solve |-> Len(items) - items_for_solver]]

----------------------------------------------------------------------------
(* status.py *)

\* The fixed priority of reason codes in _derive_line_reasons.
ReasonPriority ==
    <<"insufficient_quantity", "below_min_line_qty", "price_above_margin",
      "supplier_blacklisted", "filtered_out_by_policy",
      "min_order_amount_risk", "no_available_candidates">>

\* A cannot_close entry.  details is the sequence of merged per-candidate
\* details (empty when the entry carries no details).
Entry(line_no, reason, details) ==
    [line_no |-> line_no, reason |-> reason, details |-> details]

\* reason_map[code]: the details of every (candidate, rejection reason) pair
\* with that code, in candidate order.
ReasonMap(item, code) ==
    LET hits == SelectSeq(item.candidates_all,
                          LAMBDA c : code \in Range(c.rejection_reasons))
    IN  [i \in DOMAIN hits |-> [supplier_id |-> hits[i].supplier_id]]

\* _derive_line_reasons
DeriveLineReasons(item) ==
    LET present == SelectSeq(ReasonPriority,
                             LAMBDA code : ReasonMap(item, code) # <<>>)
    IN  IF present = <<>>
        THEN <<Entry(item.line_no, "no_available_candidates", <<>>)>>
        ELSE [i \in DOMAIN present |->
                 Entry(item.line_no, present[i], ReasonMap(item, present[i]))]

\* The distinct line numbers of the three buckets of a breakdown.
BucketLines(breakdown) ==
    [fully_closed |-> Range(breakdown.fully_closed),
     partially_closed |-> Range(breakdown.partially_closed),
     cannot_close |-> {breakdown.cannot_close[i].line_no :
                          i \in DOMAIN breakdown.cannot_close}]

\* Variant of RefreshStatusCounts that counts the entries of cannot_close
\* instead of their distinct lines.
RefreshCountingEntries(sd) ==
    [order_status |-> sd.order_status,
     breakdown |-> sd.breakdown,
     counts |-> [fully_closed |-> Len(sd.breakdown.fully_closed),
                 partially_closed |-> Len(sd.breakdown.partially_closed),
                 cannot_close |-> Len(sd.breakdown.cannot_close)]]

\* _refresh_status_counts: status_details with counts recomputed
RefreshStatusCounts(sd) ==
    LET lines == BucketLines(sd.breakdown)
    IN  [order_status |-> sd.order_status,
         breakdown |-> sd.breakdown,
         counts |-> [fully_closed |-> Cardinality(lines.fully_closed),
                     partially_closed |-> Cardinality(lines.partially_closed),
                     cannot_close |-> Cardinality(lines.cannot_close)]]

\* Variant of RiskAnnotations that visits item["candidates"], the eligible
\* candidates, instead of item["candidates_all"].
RiskAnnotationsOfEligible(enriched_payload) ==
    FlatSeq([i \in DOMAIN enriched_payload.items |->
        LET item == enriched_payload.items[i]
            risky == SelectSeq(item.candidates,
                               LAMBDA c : ~IsNone(c.min_order_amount_details))
        IN  [j \in DOMAIN risky |->
                [line_no |-> item.line_no,
                 details |-> Val(risky[j].min_order_amount_details)]]])

\* The (line_no, min_order_amount_details) pairs of an enriched payload, in
\* the order _calculate_min_order_shortfalls visits them.
RiskAnnotations(enriched_payload) ==
    FlatSeq([i \in DOMAIN enriched_payload.items |->
        LET item == enriched_payload.items[i]
            risky == SelectSeq(item.candidates_all,
                               LAMBDA c : ~IsNone(c.min_order_amount_details))
        IN  [j \in DOMAIN risky |->
                [line_no |-> item.line_no,
                 details |-> Val(risky[j].min_order_amount_details)]]])

ShortfallKey(e) == <<e.line_no, e.details.supplier_id>>

\* One step of the dict update: insert under a new key, or replace the
\* entry of the key when the new delta_amount is smaller.
RECURSIVE PutShortfall(_, _)
PutShortfall(shortfalls, e) ==
    IF shortfalls = <<>> THEN <<e>>
    ELSE IF ShortfallKey(Head(shortfalls)) = ShortfallKey(e)
         THEN (IF e.details.delta_amount < Head(shortfalls).details.delta_amount
               THEN <<e>> ELSE <<Head(shortfalls)>>) \o Tail(shortfalls)
         ELSE <<Head(shortfalls)>> \o PutShortfall(Tail(shortfalls), e)

RECURSIVE FoldShortfalls(_, _)
FoldShortfalls(shortfalls, annotations) ==
    IF annotations = <<>> THEN shortfalls
    ELSE FoldShortfalls(PutShortfall(shortfalls, Head(annotations)),
                        Tail(annotations))

\* _calculate_min_order_shortfalls
CalculateMinOrderShortfalls(enriched_payload) ==
    LET kept == FoldShortfalls(<<>>, RiskAnnotations(enriched_payload))
    IN  [i \in DOMAIN kept |->
            [line_no |-> kept[i].line_no,
             reason |-> "min_order_amount_not_met",
             details |-> <<kept[i].details>>]]

\* Variant of OrderStatusBucket that looks at every classified candidate
\* instead of the eligible ones.
OrderStatusBucketAllCandidates(item) ==
    LET available_candidates ==
            SelectSeq(item.candidates_all, LAMBDA c : c.is_available)
    IN  IF item.match.status \in {"no_match", "low_confidence"}
        THEN "cannot_close"
        ELSE IF available_candidates = <<>> THEN "cannot_close"
        ELSE IF \E i \in DOMAIN available_candidates :
                   available_candidates[i].sufficient_qty
             THEN "fully_closed"
             ELSE "partially_closed"

\* The bucket determine_order_status counts an item in.
OrderStatusBucket(item) ==
    LET available_candidates ==
            SelectSeq(item.candidates, LAMBDA c : c.is_available)
    IN  IF item.match.status \in {"no_match", "low_confidence"}
        THEN "cannot_close"
        ELSE IF available_candidates = <<>> THEN "cannot_close"
        ELSE IF \E i \in DOMAIN available_candidates :
                   available_candidates[i].sufficient_qty
             THEN "fully_closed"
             ELSE "partially_closed"

\* determine_order_status
DetermineOrderStatus(items) ==
    LET Count(b) == Cardinality({i \in DOMAIN items :
                                    OrderStatusBucket(items[i]) = b})
    IN  IF Count("cannot_close") > 0 THEN "cannot_close"
        ELSE IF Count("partially_closed") > 0 THEN "partially_closed"
        ELSE "fully_closed"

\* Variant of LineStatus that tests the raw candidate count before the match
\* status.
LineStatusRawFirst(item) ==
    IF item.candidates_raw_count = 0
    THEN [bucket |-> "cannot_close",
          entries |-> <<Entry(item.line_no, "no_candidates_raw", <<>>)>>]
    ELSE IF item.match.status = "no_match"
    THEN [bucket |-> "cannot_close",
          entries |-> <<Entry(item.line_no, "unknown_plant", <<>>)>>]
    ELSE IF item.match.status = "low_confidence"
    THEN [bucket |-> "cannot_close",
          entries |-> <<Entry(item.line_no, "low_confidence_match", <<>>)>>]
    ELSE IF ~item.goes_to_solver
    THEN [bucket |-> "cannot_close", entries |-> DeriveLineReasons(item)]
    ELSE IF \E i \in DOMAIN item.candidates : item.candidates[i].sufficient_qty
    THEN [bucket |-> "fully_closed", entries |-> <<>>]
    ELSE [bucket |-> "partially_closed", entries |-> <<>>]

\* The per-line classification of determine_status: the bucket of a line
\* and the cannot_close entries it contributes.
LineStatus(item) ==
    IF item.match.status = "no_match"
    THEN [bucket |-> "cannot_close",
          entries |-> <<Entry(item.line_no, "unknown_plant", <<>>)>>]
    ELSE IF item.match.status = "low_confidence"
    THEN [bucket |-> "cannot_close",
          entries |-> <<Entry(item.line_no, "low_confidence_match", <<>>)>>]
    ELSE IF item.candidates_raw_count = 0
    THEN [bucket |-> "cannot_close",
          entries |-> <<Entry(item.line_no, "no_candidates_raw", <<>>)>>]
    ELSE IF ~item.goes_to_solver
    THEN [bucket |-> "cannot_close", entries |-> DeriveLineReasons(item)]
    ELSE IF \E i \in DOMAIN item.candidates : item.candidates[i].sufficient_qty
    THEN [bucket |-> "fully_closed", entries |-> <<>>]
    ELSE [bucket |-> "partially_closed", entries |-> <<>>]

\* determine_status: <<order_status, status_details>>
DetermineStatus(enriched_payload) ==
    LET items == enriched_payload.items
        InBucket(b) == {items[i].line_no :
                           i \in {j \in DOMAIN items :
                                     LineStatus(items[j]).bucket = b}}
        breakdown ==
            [fully_closed |-> Sorted(InBucket("fully_closed")),
             partially_closed |-> Sorted(InBucket("partially_closed")),
             cannot_close |->
                 FlatSeq([i \in DOMAIN items |-> LineStatus(items[i]).entries])]
        status == DetermineOrderStatus(items)
    IN  <<status,
          RefreshStatusCounts([order_status |-> status,
                               breakdown |-> breakdown,
                               counts |-> <<>>])>>

----------------------------------------------------------------------------
(* solver.py *)

\* Weight of the supplier-count term of the container_match objective.
SupplierWeight == 1000

\* float(price) * qty and float(min_order_amount) are binary64 values and
\* int(v * 100) truncates: for these (price, qty) pairs and amounts of the
\* model's domains the product v * 100 falls just below the exact number of
\* cents and the truncation loses one cent (int(0.29 * 100) = 28).  For all
\* other values of the domains the conversion is exact.
LineTotalTruncates == {<<29, 1>>, <<29, 2>>, <<29, 3>>}
AmountTruncates == {29, 57}

\* amount_cents = int(float(price) * qty * 100)
AmountCents(price, qty) ==
    price * qty - (IF <<price, qty>> \in LineTotalTruncates THEN 1 ELSE 0)

\* Variant of MinAmountCents whose threshold is one cent above the truncated
\* amount.
MinAmountCentsPlusOne(min_order_amount) ==
    min_order_amount + (IF min_order_amount \in AmountTruncates THEN 0 ELSE 1)

\* min_amount_cents = int(float(min_order_amount) * 100)
MinAmountCents(min_order_amount) ==
    min_order_amount - (IF min_order_amount \in AmountTruncates THEN 1 ELSE 0)

\* Variant of SolverItems that takes every line with an eligible candidate.
SolverItemsWithCandidates(enriched_payload) ==
    SelectSeq(enriched_payload.items, LAMBDA it : it.candidates # <<>>)

\* solver_items = [item for item in items if item["goes_to_solver"]]
SolverItems(enriched_payload) ==
    SelectSeq(enriched_payload.items, LAMBDA it : it.goes_to_solver)

\* all_candidates: the flat list of the candidates of the solver items; the
\* position in the list is candidate_idx + 1.
AllCandidates(enriched_payload) ==
    LET solver_items == SolverItems(enriched_payload)
    IN  FlatSeq([i \in DOMAIN solver_items |->
            [j \in DOMAIN solver_items[i].candidates |->
                LET c == solver_items[i].candidates[j]
                IN  [item_idx |-> i,
                     line_no |-> solver_items[i].line_no,
                     qty |-> solver_items[i].qty,
                     supplier_id |-> c.supplier_id,
                     pack_code |-> c.pack_code,
                     pack_match_status |-> c.pack_match_status,
                     price |-> c.price,
                     shortage_pct |-> c.shortage_pct]]])

SupplierIdsOf(all_candidates) ==
    {all_candidates[i].supplier_id : i \in DOMAIN all_candidates}

\* suppliers_info[supplier_id] raises KeyError for a supplier that the
\* payload's suppliers list does not hold.
ModelBuildRaises(enriched_payload) ==
    \E s \in SupplierIdsOf(AllCandidates(enriched_payload)) :
        s \notin DOMAIN enriched_payload.suppliers

\* The suppliers of the model that get a min order amount constraint: the
\* loop visits the suppliers in ascending order and ends at the first one
\* that raises.
ConstrainedSuppliers(enriched_payload) ==
    LET ids == SupplierIdsOf(AllCandidates(enriched_payload))
        missing == {s \in ids : s \notin DOMAIN enriched_payload.suppliers}
    IN  {s \in ids :
            /\ \A m \in missing : s < m
            /\ Truthy(enriched_payload.suppliers[s].min_order_amount)}

\* Sum of amount_cents * x[c] over the candidates of a supplier.
RECURSIVE SelectedCents(_, _, _)
SelectedCents(all_candidates, x, s) ==
    IF x = {} THEN 0
    ELSE LET i == CHOOSE j \in x : TRUE
             c == all_candidates[i]
         IN  (IF c.supplier_id = s THEN AmountCents(c.price, c.qty) ELSE 0)
             + SelectedCents(all_candidates, x \ {i}, s)

\* Variant of ExactlyOne: each item selects at least one candidate.
AtLeastOne(all_candidates, x) ==
    \A it \in {all_candidates[i].item_idx : i \in DOMAIN all_candidates} :
        Cardinality({i \in x : all_candidates[i].item_idx = it}) >= 1

\* Constraint: each item selects exactly one candidate.
ExactlyOne(all_candidates, x) ==
    \A it \in {all_candidates[i].item_idx : i \in DOMAIN all_candidates} :
        Cardinality({i \in x : all_candidates[i].item_idx = it}) = 1

\* Variant of Linking: no constraint between x and y.
NoLinking(all_candidates, x, y) == TRUE

\* Constraint: x[candidate] <= y[supplier].
Linking(all_candidates, x, y) ==
    \A i \in x : all_candidates[i].supplier_id \in y

\* Constraint: sum(terms) >= min_amount_cents * y[supplier].
MinOrderAmount(enriched_payload, all_candidates, x, y) ==
    \A s \in ConstrainedSuppliers(enriched_payload) :
        SelectedCents(all_candidates, x, s)
            >= MinAmountCents(Val(enriched_payload.suppliers[s].min_order_amount))
               * (IF s \in y THEN 1 ELSE 0)

\* The value assignments <<x, y>> that satisfy the model.
FeasibleSet(enriched_payload) ==
    LET all_candidates == AllCandidates(enriched_payload)
    IN  {xy \in (SUBSET DOMAIN all_candidates)
                   \X (SUBSET SupplierIdsOf(all_candidates)) :
            /\ ExactlyOne(all_candidates, xy[1])
            /\ Linking(all_candidates, xy[1], xy[2])
            /\ MinOrderAmount(enriched_payload, all_candidates, xy[1], xy[2])}

\* The objective: suppliers * 1000 + container penalties, or suppliers.
ObjectiveOf(num_suppliers, num_alike, optimization_priority) ==
    IF optimization_priority = "container_match"
    THEN num_suppliers * SupplierWeight + num_alike
    ELSE num_suppliers

Objective(cfg, all_candidates, x, y) ==
    ObjectiveOf(Cardinality(y),
                Cardinality({i \in x :
                    all_candidates[i].pack_match_status = "alike"}),
                cfg.optimization_priority)

\* What the CP-SAT backend may answer: a status and, for OPTIMAL and
\* FEASIBLE, a value assignment.  OPTIMAL carries a minimum of the
\* objective, FEASIBLE any satisfying assignment, INFEASIBLE is answered
\* only for a model without one, UNKNOWN when the time budget ends first.
BackendAnswers(cfg, enriched_payload) ==
    LET all_candidates == AllCandidates(enriched_payload)
        feasible == FeasibleSet(enriched_payload)
        optimal == {xy \in feasible : \A other \in feasible :
                       Objective(cfg, all_candidates, xy[1], xy[2])
                         <= Objective(cfg, all_candidates, other[1], other[2])}
    IN  {[status |-> "OPTIMAL", x |-> xy[1], y |-> xy[2]] : xy \in optimal}
        \cup {[status |-> "FEASIBLE", x |-> xy[1], y |-> xy[2]] : xy \in feasible}
        \cup (IF feasible = {}
              THEN {[status |-> "INFEASIBLE", x |-> {}, y |-> {}]} ELSE {})
        \cup {[status |-> "UNKNOWN", x |-> {}, y |-> {}]}

\* constraint_audit["min_order_amount"]: one entry per constrained supplier,
\* in ascending supplier order.
ConstraintAudit(enriched_payload) ==
    LET all_candidates == AllCandidates(enriched_payload)
        order == Sorted(ConstrainedSuppliers(enriched_payload))
    IN  [k \in DOMAIN order |->
            LET mine == SelectSeq(all_candidates,
                                  LAMBDA c : c.supplier_id = order[k])
            IN  [supplier_id |-> order[k],
                 min_order_amount |->
                     Val(enriched_payload.suppliers[order[k]].min_order_amount),
                 lines |-> [i \in DOMAIN mine |->
                               [line_no |-> mine[i].line_no,
                                qty |-> mine[i].qty,
                                unit_price |-> mine[i].price,
                                line_total |-> mine[i].price * mine[i].qty,
                                pack_code |-> mine[i].pack_code]],
                 line_total_sum |->
                     SeqSum([i \in DOMAIN mine |-> mine[i].price * mine[i].qty])]]

\* The solution extracted from a value assignment.
ExtractSolution(cfg, enriched_payload, answer) ==
    LET all_candidates == AllCandidates(enriched_payload)
        chosen == SelectSeq([i \in DOMAIN all_candidates |->
                                [idx |-> i, cand |-> all_candidates[i]]],
                            LAMBDA e : e.idx \in answer.x)
    IN  [status |-> answer.status,
         objective_value |->
             Objective(cfg, all_candidates, answer.x, answer.y),
         num_suppliers |-> Cardinality(answer.y),
         assignments |->
             [i \in DOMAIN chosen |->
                 [line_no |-> chosen[i].cand.line_no,
                  supplier_id |-> chosen[i].cand.supplier_id,
                  pack_code |-> chosen[i].cand.pack_code,
                  pack_match_status |-> chosen[i].cand.pack_match_status,
                  price |-> chosen[i].cand.price,
                  qty |-> chosen[i].cand.qty,
                  shortage_pct |-> chosen[i].cand.shortage_pct]],
         suppliers_used |-> Sorted(answer.y)]

\* self.last_solver_info as solve_assignment leaves it.
\* Variant of SolverInfo that keeps the constraint audit only when the
\* backend produced a solution.
SolverInfoOnSolution(status, reason, audit, objective_value, suppliers_selected) ==
    [solver |-> "ortools_cp_sat",
     status |-> status,
     reason |-> reason,
     constraint_audit |->
         [min_order_amount |->
              IF status \in {"OPTIMAL", "FEASIBLE"} THEN audit ELSE <<>>],
     objective_value |-> objective_value,
     suppliers_selected |-> suppliers_selected,
     diagnostics |-> None]

SolverInfo(status, reason, audit, objective_value, suppliers_selected) ==
    [solver |-> "ortools_cp_sat",
     status |-> status,
     reason |-> reason,
     constraint_audit |-> [min_order_amount |-> audit],
     objective_value |-> objective_value,
     suppliers_selected |-> suppliers_selected,
     diagnostics |-> None]

\* Variant of SolveAssignmentWith that extracts a solution from the
\* backend's values whatever status it answered.
SolveAssignmentAnyStatus(cfg, enriched_payload, answer) ==
    IF SolverItems(enriched_payload) = <<>>
    THEN <<None, SolverInfo("SKIPPED", Some("no_items_for_solver"),
                            <<>>, None, None)>>
    ELSE LET sol == ExtractSolution(cfg, enriched_payload, answer)
         IN  <<Some(sol),
               SolverInfo(answer.status, None,
                          ConstraintAudit(enriched_payload),
                          Some(sol.objective_value),
                          Some(sol.suppliers_used))>>

\* solve_assignment for one answer of the backend:
\* <<returned solution or None, last_solver_info>>
SolveAssignmentWith(cfg, enriched_payload, answer) ==
    IF SolverItems(enriched_payload) = <<>>
    THEN <<None, SolverInfo("SKIPPED", Some("no_items_for_solver"),
                            <<>>, None, None)>>
    ELSE IF answer.status \in {"OPTIMAL", "FEASIBLE"}
    THEN LET sol == ExtractSolution(cfg, enriched_payload, answer)
         IN  <<Some(sol),
               SolverInfo(answer.status, None,
                          ConstraintAudit(enriched_payload),
                          Some(sol.objective_value),
                          Some(sol.suppliers_used))>>
    ELSE <<None, SolverInfo(answer.status,
                            Some("solver_returned_no_solution"),
                            ConstraintAudit(enriched_payload), None, None)>>

----------------------------------------------------------------------------
(* processor.py: OrderProcessor.process_order *)

\* Variant of BuildLineDiagnostics that reports the goes_to_solver lines
\* only.
DiagnosticsOfSolverLines(enriched_payload) ==
    LET kept == SelectSeq(enriched_payload.items, LAMBDA it : it.goes_to_solver)
    IN  [i \in DOMAIN kept |->
            [line_no |-> kept[i].line_no,
             match_status |-> kept[i].match.status,
             raw_candidates |-> kept[i].candidates_raw_count,
             solver_candidates |-> Len(kept[i].candidates),
             rejection_summary |-> kept[i].rejection_summary,
             min_order_amount_risks |-> kept[i].min_order_amount_risks]]

\* _build_line_diagnostics
BuildLineDiagnostics(enriched_payload) ==
    [i \in DOMAIN enriched_payload.items |->
        LET item == enriched_payload.items[i]
        IN  [line_no |-> item.line_no,
             match_status |-> item.match.status,
             raw_candidates |-> item.candidates_raw_count,
             solver_candidates |-> Len(item.candidates),
             rejection_summary |-> item.rejection_summary,
             min_order_amount_risks |-> item.min_order_amount_risks]]

\* Variant of DemoteImpactedLines that appends the shortfalls and leaves
\* fully_closed and partially_closed as they are.
DemoteKeepingBuckets(sd, min_order_shortfalls) ==
    RefreshStatusCounts(
        [order_status |-> "cannot_close",
         breakdown |->
             [fully_closed |-> sd.breakdown.fully_closed,
              partially_closed |-> sd.breakdown.partially_closed,
              cannot_close |->
                  sd.breakdown.cannot_close \o min_order_shortfalls],
         counts |-> sd.counts])

\* The reconciliation of status_details after a failed solve: the lines of
\* the shortfalls leave fully_closed and partially_closed, the shortfalls
\* are appended to cannot_close, the counts are refreshed.
DemoteImpactedLines(sd, min_order_shortfalls) ==
    LET impacted_lines == {min_order_shortfalls[i].line_no :
                              i \in DOMAIN min_order_shortfalls}
        Keep(line) == line \notin impacted_lines
    IN  RefreshStatusCounts(
            [order_status |-> "cannot_close",
             breakdown |->
                 [fully_closed |->
                      SelectSeq(sd.breakdown.fully_closed, Keep),
                  partially_closed |->
                      SelectSeq(sd.breakdown.partially_closed, Keep),
                  cannot_close |->
                      sd.breakdown.cannot_close \o min_order_shortfalls],
             counts |-> sd.counts])

\* Variant of OutputAssignments that reports the first recorded row only.
OutputFirstAssignment(rows, last) ==
    IF rows = <<>> THEN <<>>
    ELSE <<[line_no |-> rows[1].line_no,
            supplier_id |-> rows[1].supplier_id,
            pack_code |-> rows[1].pack_code,
            unit_price |-> rows[1].unit_price,
            shortage_pct |-> None]>>

\* The assignment entries generate_output builds from the recorded rows,
\* ordered by line_no, with the shortage_pct of self.last_solution.
OutputAssignments(rows, last) ==
    LET lines == Sorted({rows[i].line_no : i \in DOMAIN rows})
        RowOf(line) == rows[CHOOSE i \in DOMAIN rows : rows[i].line_no = line]
        Shortage(row) ==
            LET hits == SelectSeq(last.assignments,
                            LAMBDA a : a.line_no = row.line_no
                                       /\ a.supplier_id = row.supplier_id)
            IN  IF hits = <<>> THEN None ELSE hits[Len(hits)].shortage_pct
    IN  [k \in DOMAIN lines |->
            [line_no |-> lines[k],
             supplier_id |-> RowOf(lines[k]).supplier_id,
             pack_code |-> RowOf(lines[k]).pack_code,
             unit_price |-> RowOf(lines[k]).unit_price,
             shortage_pct |-> Shortage(RowOf(lines[k]))]]

EmptySolverInfo == <<>>

\* Variant of Begin that leaves the fields of the previous run in place.
BeginKeepingLast ==
    /\ pc = "idle"
    /\ pc' = "classify"
    /\ UNCHANGED <<config, payload, enriched, order_status, status_details,
                   solution, last_solver_info, last_solution, recorded,
                   result>>
    /\ UNCHANGED <<calls, scalevars>>

\* process_order starts: the per-run fields are reset.
Begin ==
    /\ pc = "idle"
    /\ last_solution' = None
    /\ last_solver_info' = EmptySolverInfo
    /\ enriched' = None
    /\ pc' = "classify"
    /\ UNCHANGED <<config, payload, order_status, status_details, solution,
                   recorded, result>>
    /\ UNCHANGED <<calls, scalevars>>

\* Variant of Classify that works in place: the line's "candidates" list of
\* the raw payload is overwritten with the eligible candidates.
ClassifyInPlace ==
    /\ pc = "classify"
    /\ enriched' = Some(FilterAndClassifyCandidates(config, payload))
    /\ LET e == FilterAndClassifyCandidates(config, payload)
           Eligible(i) ==
               LET tagged == [j \in DOMAIN payload.items[i].candidates |->
                                 <<j, payload.items[i].candidates[j]>>]
                   kept == SelectSeq(tagged,
                              LAMBDA t : e.items[i].candidates_all[t[1]]
                                             .eligible_for_solver)
               IN  [k \in DOMAIN kept |-> kept[k][2]]
       IN  payload' = [payload EXCEPT !.items =
                          [i \in DOMAIN payload.items |->
                              [payload.items[i] EXCEPT
                                  !.candidates = Eligible(i)]]]
    /\ pc' = "status"
    /\ UNCHANGED <<config, order_status, status_details, solution,
                   last_solver_info, last_solution, recorded, result>>
    /\ UNCHANGED <<calls, scalevars>>

\* enriched_payload = self.filter_and_classify_candidates(raw_candidates)
Classify ==
    /\ pc = "classify"
    /\ enriched' = Some(FilterAndClassifyCandidates(config, payload))
    /\ pc' = "status"
    /\ UNCHANGED <<config, payload, order_status, status_details, solution,
                   last_solver_info, last_solution, recorded, result>>
    /\ UNCHANGED <<calls, scalevars>>

\* order_status, status_details = self.determine_status(enriched_payload)
DetermineStatusStep ==
    /\ pc = "status"
    /\ order_status' = Some(DetermineStatus(Val(enriched))[1])
    /\ status_details' = Some(DetermineStatus(Val(enriched))[2])
    /\ pc' = "dispatch"
    /\ UNCHANGED <<config, payload, enriched, solution, last_solver_info,
                   last_solution, recorded, result>>
    /\ UNCHANGED <<calls, scalevars>>

\* The early return of process_order when no item goes to the solver.
NoItemsForSolver ==
    /\ pc = "dispatch"
    /\ Val(enriched).stats.items_for_solver = 0
    /\ result' = Some([success |-> FALSE,
                       error |-> Some("no_items_for_solver"),
                       order_status |-> Val(order_status),
                       status_details |-> Val(status_details),
                       assignments |-> None,
                       diagnostics |-> BuildLineDiagnostics(Val(enriched)),
                       solver_details |->
                           [status |-> "SKIPPED",
                            reason |-> Some("no_items_for_solver")]])
    /\ pc' = "done"
    /\ UNCHANGED <<config, payload, enriched, order_status, status_details,
                   solution, last_solver_info, last_solution, recorded>>
    /\ UNCHANGED <<calls, scalevars>>

\* solution = self.solve_assignment(order_id, enriched_payload)
SolveAssignment ==
    /\ pc = "dispatch"
    /\ Val(enriched).stats.items_for_solver # 0
    /\ IF ModelBuildRaises(Val(enriched))
       THEN /\ last_solver_info' =
                   SolverInfo("NOT_STARTED", None,
                              ConstraintAudit(Val(enriched)), None, None)
            /\ solution' = None
            /\ pc' = "raised"
       ELSE \E answer \in BackendAnswers(config, Val(enriched)) :
            /\ solution' = SolveAssignmentWith(config, Val(enriched), answer)[1]
            /\ last_solver_info' =
                   SolveAssignmentWith(config, Val(enriched), answer)[2]
            /\ pc' = "solved"
    /\ UNCHANGED <<config, payload, enriched, order_status, status_details,
                   last_solution, recorded, result>>
    /\ UNCHANGED <<calls, scalevars>>

\* The `if not solution` branch of process_order.
Reconcile ==
    /\ pc = "solved"
    /\ IsNone(solution)
    /\ LET min_order_shortfalls == CalculateMinOrderShortfalls(Val(enriched))
           sd == IF min_order_shortfalls # <<>>
                 THEN DemoteImpactedLines(Val(status_details),
                                          min_order_shortfalls)
                 ELSE Val(status_details)
           status == IF min_order_shortfalls # <<>> THEN "cannot_close"
                     ELSE Val(order_status)
           info == IF min_order_shortfalls # <<>>
                   THEN [last_solver_info EXCEPT
                            !.diagnostics = Some(min_order_shortfalls)]
                   ELSE last_solver_info
       IN  /\ status_details' = Some(sd)
           /\ order_status' = Some(status)
           /\ last_solver_info' = info
           /\ result' = Some([success |-> FALSE,
                              error |-> Some("solver_infeasible"),
                              order_status |-> status,
                              status_details |-> sd,
                              assignments |-> None,
                              diagnostics |->
                                  BuildLineDiagnostics(Val(enriched)),
                              solver_details |-> info])
    /\ pc' = "done"
    /\ UNCHANGED <<config, payload, enriched, solution, last_solution,
                   recorded>>
    /\ UNCHANGED <<calls, scalevars>>

\* The success branch: record_assignment and generate_output.
RecordAssignment ==
    /\ pc = "solved"
    /\ ~IsNone(solution)
    /\ last_solution' = solution
    /\ LET rows == [i \in DOMAIN Val(solution).assignments |->
                       [line_no |-> Val(solution).assignments[i].line_no,
                        supplier_id |-> Val(solution).assignments[i].supplier_id,
                        pack_code |-> Val(solution).assignments[i].pack_code,
                        unit_price |-> Val(solution).assignments[i].price]]
       IN  /\ recorded' = Some(rows)
           /\ result' = Some([success |-> TRUE,
                              error |-> None,
                              order_status |-> Val(order_status),
                              status_details |-> Val(status_details),
                              assignments |->
                                  Some(OutputAssignments(rows, Val(solution))),
                              diagnostics |-> <<>>,
                              solver_details |-> last_solver_info])
    /\ pc' = "done"
    /\ UNCHANGED <<config, payload, enriched, order_status, status_details,
                   solution, last_solver_info>>
    /\ UNCHANGED <<calls, scalevars>>

Next ==
    \/ Begin
    \/ Classify
    \/ DetermineStatusStep
    \/ NoItemsForSolver
    \/ SolveAssignment
    \/ Reconcile
    \/ RecordAssignment

----------------------------------------------------------------------------
(* Inputs *)
(* An order is one of five shapes: a single line with candidates of every  *)
(* kind (each classification rule is met), several lines with plain        *)
(* candidates (the lines compete for suppliers in the assignment model),   *)
(* several lines priced in single cents (the float arithmetic of the       *)
(* classification and of the model builder is inexact there), a single     *)
(* line whose candidates differ by a few cents (the price margin rounds),  *)
(* or a single line with candidates of a supplier the payload's suppliers  *)
(* list does not know.                                                     *)

MaxLines == 2
MaxCands == 2

SeqsUpTo(S, n) == UNION {[1..k -> S] : k \in 0..n}

Candidate(s, p, a, code, match) ==
    [supplier_id |-> s, price |-> p, availability_qty |-> a,
     pack_code |-> code, pack_match_status |-> match,
     policy_filters |-> <<>>, supplier_rules |-> None]

Line(q, m, cs) == [qty |-> q, status |-> m, candidates |-> cs]

MakePayload(ls, suppliers) ==
    [items |-> [i \in DOMAIN ls |->
                   [line_no |-> i, qty |-> ls[i].qty,
                    match |-> [status |-> ls[i].status],
                    candidates |-> ls[i].candidates]],
     suppliers |-> suppliers]

\* The payload's suppliers list of all shapes but the third:
\* supplier 1 has no rules, 2 a min order amount of 200.00, 3 a min line qty
\* and a min order amount, 4 is blacklisted and carries a policy filter.
SupplierTable ==
    (1 :> NoRules)
    @@ (2 :> Rules(None, Some(20000), FALSE, <<>>))
    @@ (3 :> Rules(Some(10), Some(12000), FALSE, <<>>))
    @@ (4 :> Rules(None, None, TRUE, <<"region">>))

Prices == {1000, 1500}

RichPool ==
    {Candidate(s, p, a, "C7", "exactly") :
        s \in DOMAIN SupplierTable, p \in Prices,
        a \in {None, Some(4), Some(8)}}

RichLines ==
    {Line(q, m, cs) :
        q \in {5, 10}, m \in MatchStatus, cs \in SeqsUpTo(RichPool, MaxCands)}

PlainPool ==
    {Candidate(1, 1000, None, "C7", "exactly"),
     Candidate(2, 1000, None, "C7", "exactly"),
     Candidate(2, 1500, None, "C7", "exactly"),
     Candidate(1, 1000, Some(8), "C7", "exactly"),
     Candidate(2, 1000, None, "C6", "alike")}

PlainLines ==
    {Line(10, m, cs) :
        m \in {"ok", "no_match"}, cs \in SeqsUpTo(PlainPool, MaxCands)}

\* Suppliers whose min order amounts are 0.29, 0.57 and 0.87.
CentSupplierTable ==
    (1 :> Rules(None, Some(29), FALSE, <<>>))
    @@ (2 :> Rules(None, Some(57), FALSE, <<>>))
    @@ (3 :> Rules(None, Some(87), FALSE, <<>>))

CentLines ==
    {Line(q, "ok", cs) :
        q \in {1, 2, 3},
        cs \in SeqsUpTo({Candidate(s, p, None, "C7", "exactly") :
                            s \in {1, 2, 3}, p \in {28, 29}}, 1)}

\* Lines of one unit whose candidates, all of the supplier without rules,
\* are priced 0.28, 0.30 or 0.31.
MarginLines ==
    {Line(1, "ok", cs) :
        cs \in SeqsUpTo({Candidate(1, p, None, "C7", "exactly") :
                            p \in {28, 30, 31}}, MaxCands)}

\* Lines whose candidates are of supplier 1 or of supplier 5, which has no
\* entry in the payload's suppliers list.
OrphanLines ==
    {Line(10, "ok", cs) :
        cs \in SeqsUpTo({Candidate(s, 1000, None, "C7", "exactly") :
                            s \in {1, 5}}, MaxCands)}

\* The orders of the five shapes.
Orders ==
    <<[lines |-> SeqsUpTo(RichLines, 1), suppliers |-> SupplierTable],
      [lines |-> SeqsUpTo(PlainLines, MaxLines), suppliers |-> SupplierTable],
      [lines |-> SeqsUpTo(CentLines, MaxLines), suppliers |-> CentSupplierTable],
      [lines |-> SeqsUpTo(MarginLines, 1), suppliers |-> SupplierTable],
      [lines |-> SeqsUpTo(OrphanLines, 1), suppliers |-> SupplierTable]>>

Configs ==
    {DefaultConfig,
     [allow_insufficient |-> FALSE, insufficient_threshold |-> 20,
      price_margin |-> Some(10), optimization_priority |-> "container_match"]}

Init ==
    /\ config \in Configs
    /\ \E k \in DOMAIN Orders : \E ls \in Orders[k].lines :
           payload = MakePayload(ls, Orders[k].suppliers)
    /\ pc = "idle"
    /\ enriched = None
    /\ order_status = None
    /\ status_details = None
    /\ solution = None
    /\ last_solver_info = EmptySolverInfo
    /\ last_solution = None
    /\ recorded = None
    /\ result = None
    /\ calls = <<>>
    /\ scale_lines = 0
    /\ scale_solution = None

Spec == Init /\ [][Next]_vars

----------------------------------------------------------------------------
(* Several orders processed by one OrderProcessor *)
(* process_order is called again once the previous call has returned.  The *)
(* locals of the previous call are gone; the fields of the processor       *)
(* (last_solution, last_enriched_payload, last_solver_info) are as the     *)
(* previous call left them.                                                *)

MaxCalls == 2

\* Single-line orders: a line that matches or not, with at most one plain
\* candidate (supplier 1 can be assigned, supplier 2's min order amount of
\* 200.00 cannot be reached by one line).
CallLines ==
    {Line(10, m, cs) :
        m \in {"ok", "no_match"}, cs \in SeqsUpTo(PlainPool, 1)}

CallPayloads ==
    {MakePayload(ls, SupplierTable) : ls \in SeqsUpTo(CallLines, 1)}

\* The next call of process_order on the same processor.
NextCall ==
    /\ pc = "done"
    /\ Len(calls) + 1 < MaxCalls
    /\ calls' = Append(calls, IF Val(result).success THEN "success"
                              ELSE Val(Val(result).error))
    /\ payload' \in CallPayloads
    /\ pc' = "idle"
    /\ order_status' = None
    /\ status_details' = None
    /\ solution' = None
    /\ recorded' = None
    /\ result' = None
    /\ UNCHANGED <<config, enriched, last_solver_info, last_solution>>
    /\ UNCHANGED scalevars

InitCalls ==
    /\ config \in Configs
    /\ payload \in CallPayloads
    /\ pc = "idle"
    /\ enriched = None
    /\ order_status = None
    /\ status_details = None
    /\ solution = None
    /\ last_solver_info = EmptySolverInfo
    /\ last_solution = None
    /\ recorded = None
    /\ result = None
    /\ calls = <<>>
    /\ scale_lines = 0
    /\ scale_solution = None

NextCalls ==
    \/ Next
    \/ NextCall

SpecCalls == InitCalls /\ [][NextCalls]_vars

----------------------------------------------------------------------------
(* The assignment model at scale *)
(* A family of orders over two suppliers without rules: one line that only *)
(* supplier 1 offers, and scale_lines further lines that each carry two    *)
(* candidates, supplier 1 with an 'alike' container and supplier 2 with an *)
(* 'exactly' container.  These lines are interchangeable, so a value       *)
(* assignment of the model is described by the number of them given to     *)
(* supplier 2 and by the suppliers marked used.                            *)

MaxScaleLines == 1001

ScaleSizes == {0, 1, 2, MaxScaleLines \div 2, MaxScaleLines}

\* The payload of the family's order with n interchangeable lines.
ScalePayload(n) ==
    MakePayload(
        [i \in 1..(n + 1) |->
            IF i = 1
            THEN Line(10, "ok", <<Candidate(1, 1000, None, "C7", "exactly")>>)
            ELSE Line(10, "ok", <<Candidate(1, 1000, None, "C6", "alike"),
                                  Candidate(2, 1000, None, "C7", "exactly")>>)],
        (1 :> NoRules) @@ (2 :> NoRules))

\* supplier_ids: the suppliers of the candidates of the order.
ScaleSupplierIds(n) == IF n = 0 THEN {1} ELSE {1, 2}

\* The value assignments that satisfy the model of the order with n
\* interchangeable lines: exactly one candidate per line (to_second of the
\* n lines select supplier 2, the others supplier 1), and every selected
\* candidate's supplier is marked used.
ScaleFeasibleSet(n) ==
    {a \in [to_second : 0..n, y : SUBSET ScaleSupplierIds(n)] :
        /\ 1 \in a.y
        /\ a.to_second > 0 => 2 \in a.y}

\* The objective of a value assignment: the lines left with supplier 1
\* select an 'alike' candidate.
ScaleObjective(cfg, n, a) ==
    ObjectiveOf(Cardinality(a.y), n - a.to_second, cfg.optimization_priority)

\* The solution extracted from a value assignment.
ScaleSolution(cfg, n, status, a) ==
    [status |-> status,
     objective_value |-> ScaleObjective(cfg, n, a),
     num_suppliers |-> Cardinality(a.y),
     num_alike |-> n - a.to_second,
     suppliers_used |-> Sorted(a.y)]

\* The solutions solve_assignment may return for the order: a minimum of
\* the objective as OPTIMAL, any satisfying assignment as FEASIBLE.
ScaleSolutions(cfg, n) ==
    LET feasible == ScaleFeasibleSet(n)
        best == SetMin({ScaleObjective(cfg, n, a) : a \in feasible})
    IN  {ScaleSolution(cfg, n, "OPTIMAL", a) :
            a \in {b \in feasible : ScaleObjective(cfg, n, b) = best}}
        \cup {ScaleSolution(cfg, n, "FEASIBLE", a) : a \in feasible}

\* The fewest suppliers a satisfying assignment of the order uses.
ScaleMinSuppliers(n) ==
    SetMin({Cardinality(a.y) : a \in ScaleFeasibleSet(n)})

\* solution = self.solve_assignment(order_id, enriched_payload)
ScaleSolve ==
    /\ IsNone(scale_solution)
    /\ \E sol \in ScaleSolutions(config, scale_lines) :
          scale_solution' = Some(sol)
    /\ UNCHANGED <<config, payload, pc, enriched, order_status,
                   status_details, solution, last_solver_info, last_solution,
                   recorded, result, calls, scale_lines>>

InitScale ==
    /\ config \in Configs
    /\ scale_lines \in ScaleSizes
    /\ payload = IF scale_lines <= MaxLines - 1
                 THEN ScalePayload(scale_lines) ELSE ScalePayload(0)
    /\ pc = "idle"
    /\ enriched = None
    /\ order_status = None
    /\ status_details = None
    /\ solution = None
    /\ last_solver_info = EmptySolverInfo
    /\ last_solution = None
    /\ recorded = None
    /\ result = None
    /\ calls = <<>>
    /\ scale_solution = None

NextScale == ScaleSolve

SpecScale == InitScale /\ [][NextScale]_vars

----------------------------------------------------------------------------
(* Properties *)

Classified == ~IsNone(enriched)
Items == Val(enriched).items
LineNos == {Items[i].line_no : i \in DOMAIN Items}

\* The status determined for the current enriched payload, before any
\* reconciliation.
Determined == DetermineStatus(Val(enriched))[2]

\* The codes of all findings recorded on a classified candidate.
FindingCodes(c) == {c.reason_details[k].code : k \in DOMAIN c.reason_details}

\* The hard rejection reasons that apply to candidate j of line i of the raw
\* payload, stated from the request, the supplier's rules and the
\* configuration.
ApplicableHardReasons(i, j) ==
    LET line == payload.items[i]
        c == line.candidates[j]
        rules == SupplierRulesOf(c, payload.suppliers)
        missing == IF IsNone(c.availability_qty) THEN 0
                   ELSE line.qty - Val(c.availability_qty)
        tolerated == /\ config.allow_insufficient
                     /\ missing * 100 <= config.insufficient_threshold * line.qty
        max_allowed_price == MaxAllowedPrice(config, line.candidates)
    IN  {r \in HardReasons :
            \/ r = "insufficient_quantity" /\ missing > 0 /\ ~tolerated
            \/ /\ r = "below_min_line_qty"
               /\ ~IsNone(rules.min_line_qty)
               /\ line.qty < Val(rules.min_line_qty)
            \/ /\ r = "price_above_margin"
               /\ ~IsNone(max_allowed_price)
               /\ c.price > Val(max_allowed_price)
            \/ r = "supplier_blacklisted" /\ rules.blacklisted
            \/ /\ r = "filtered_out_by_policy"
               /\ (rules.filters # <<>> \/ c.policy_filters # <<>>)}

\* C1: after classification a candidate is eligible_for_solver exactly when
\* none of the hard rejection reasons applies to it; its rejection_reasons
\* are the hard reasons that apply, and a candidate whose only finding is
\* the min order amount risk is eligible with an empty rejection_reasons
\* list.
C1_EligibleIffNoHardReason ==
    Classified =>
        \A i \in DOMAIN Items : \A j \in DOMAIN Items[i].candidates_all :
            LET c == Items[i].candidates_all[j]
            IN  /\ c.eligible_for_solver <=> ApplicableHardReasons(i, j) = {}
                /\ Range(c.rejection_reasons) = ApplicableHardReasons(i, j)
                /\ FindingCodes(c) \cap HardReasons = ApplicableHardReasons(i, j)
                /\ FindingCodes(c) = {"min_order_amount_risk"}
                      => c.eligible_for_solver /\ c.rejection_reasons = <<>>

\* C1 witness: classification has produced a candidate whose only finding is
\* the min order amount risk, beside a candidate with a hard reason.
C1_Witness ==
    /\ Classified
    /\ \E i \in DOMAIN Items : \E j, k \in DOMAIN Items[i].candidates_all :
          /\ Items[i].candidates_all[j].min_order_amount_risk
          /\ Items[i].candidates_all[j].eligible_for_solver
          /\ Items[i].candidates_all[k].min_order_amount_risk
          /\ ~Items[i].candidates_all[k].eligible_for_solver

\* C2: a line goes to the solver exactly when its match status is ok or
\* manual_override and one of its candidates is eligible; the candidates
\* handed to the model are the eligible ones, so every solver line has some;
\* stats.items_for_solver counts these lines.
C2_GoesToSolverIff ==
    Classified =>
        /\ \A i \in DOMAIN Items :
              /\ Items[i].goes_to_solver <=>
                    /\ Items[i].match.status \in {"ok", "manual_override"}
                    /\ \E j \in DOMAIN Items[i].candidates_all :
                          Items[i].candidates_all[j].eligible_for_solver
              /\ \A j \in DOMAIN Items[i].candidates :
                    Items[i].candidates[j].eligible_for_solver
        /\ \A k \in DOMAIN SolverItems(Val(enriched)) :
              SolverItems(Val(enriched))[k].candidates # <<>>
        /\ Val(enriched).stats.items_for_solver =
              Cardinality({i \in DOMAIN Items :
                  /\ Items[i].match.status \in {"ok", "manual_override"}
                  /\ \E j \in DOMAIN Items[i].candidates_all :
                        Items[i].candidates_all[j].eligible_for_solver})

\* C2 witness: a classified order with a line that goes to the solver and a
\* line with an eligible candidate that does not.
C2_Witness ==
    /\ Classified
    /\ \E i, k \in DOMAIN Items :
          /\ Items[i].goes_to_solver
          /\ ~Items[k].goes_to_solver
          /\ Items[k].candidates # <<>>

\* The entries of a line in the cannot_close bucket.
CannotCloseReasons(sd, line) ==
    LET es == SelectSeq(sd.breakdown.cannot_close, LAMBDA e : e.line_no = line)
    IN  [k \in DOMAIN es |-> es[k].reason]

InFully(sd, line) == line \in Range(sd.breakdown.fully_closed)
InPartially(sd, line) == line \in Range(sd.breakdown.partially_closed)
InCannot(sd, line) == CannotCloseReasons(sd, line) # <<>>

\* C3: determine_status classifies each line by the first rule that matches:
\* no_match, low_confidence, zero raw candidates, not goes_to_solver (with
\* reasons taken from the candidates), else fully_closed when a candidate
\* handed to the solver has sufficient quantity, else partially_closed.
C3_LinePrecedence ==
    pc = "dispatch" =>
        \A i \in DOMAIN Items :
            LET it == Items[i]
                sd == Val(status_details)
                reasons == CannotCloseReasons(sd, it.line_no)
                closed == InFully(sd, it.line_no) \/ InPartially(sd, it.line_no)
            IN  IF it.match.status = "no_match"
                THEN reasons = <<"unknown_plant">> /\ ~closed
                ELSE IF it.match.status = "low_confidence"
                THEN reasons = <<"low_confidence_match">> /\ ~closed
                ELSE IF it.candidates_raw_count = 0
                THEN reasons = <<"no_candidates_raw">> /\ ~closed
                ELSE IF ~it.goes_to_solver
                THEN /\ ~closed
                     /\ reasons # <<>>
                     /\ \A k \in DOMAIN reasons :
                           \E j \in DOMAIN it.candidates_all :
                               reasons[k] \in
                                   Range(it.candidates_all[j].rejection_reasons)
                ELSE /\ reasons = <<>>
                     /\ InFully(sd, it.line_no) <=>
                           \E j \in DOMAIN it.candidates_all :
                               /\ it.candidates_all[j].eligible_for_solver
                               /\ it.candidates_all[j].sufficient_qty
                     /\ InPartially(sd, it.line_no) <=> ~InFully(sd, it.line_no)

\* C3 witness: the status is determined for an order with a no_match line
\* that has an eligible candidate.
C3_Witness ==
    /\ pc = "dispatch"
    /\ \E i \in DOMAIN Items :
          /\ Items[i].match.status = "no_match"
          /\ Items[i].candidates # <<>>
          /\ CannotCloseReasons(Val(status_details), Items[i].line_no)
                = <<"unknown_plant">>

\* The order status the claimed roll-up derives from a breakdown.
Rollup(breakdown) ==
    IF breakdown.cannot_close # <<>> THEN "cannot_close"
    ELSE IF breakdown.partially_closed # <<>> THEN "partially_closed"
    ELSE "fully_closed"

\* C4: the order status returned by determine_status is the roll-up of the
\* breakdown returned with it.
C4_StatusAgreesWithBreakdown ==
    pc = "dispatch" =>
        /\ Val(order_status) = Rollup(Val(status_details).breakdown)
        /\ Val(status_details).order_status = Val(order_status)

\* C4 witness: an order with two lines whose status is partially_closed.
C4_Witness ==
    /\ pc = "dispatch"
    /\ Len(Items) = 2
    /\ Val(order_status) = "partially_closed"
    /\ Val(status_details).breakdown.fully_closed # <<>>

\* Every line is in exactly one bucket of the breakdown.
Partitioned(sd) ==
    LET lines == BucketLines(sd.breakdown)
    IN  /\ lines.fully_closed \cup lines.partially_closed \cup lines.cannot_close
              = LineNos
        /\ lines.fully_closed \cap lines.partially_closed = {}
        /\ lines.fully_closed \cap lines.cannot_close = {}
        /\ lines.partially_closed \cap lines.cannot_close = {}
        /\ Len(sd.breakdown.fully_closed) = Cardinality(lines.fully_closed)
        /\ Len(sd.breakdown.partially_closed)
              = Cardinality(lines.partially_closed)

\* C5: whenever status_details exists, after determine_status and after the
\* reconciliation, every line of the order is in exactly one of the three
\* buckets.
C5_ExactlyOneBucket ==
    ~IsNone(status_details) => Partitioned(Val(status_details))

\* C5 witness: the reconciliation has moved a line from fully_closed to
\* cannot_close.
C5_Witness ==
    /\ pc = "done"
    /\ Val(result).error = Some("solver_infeasible")
    /\ \E line \in LineNos :
          /\ InFully(Determined, line)
          /\ InCannot(Val(status_details), line)

\* The goes_to_solver lines of the classified order.
SolverLines == {Items[i].line_no : i \in {j \in DOMAIN Items : Items[j].goes_to_solver}}

\* The assignment entries of the returned solution for a line.
AssignmentsOf(line) ==
    SelectSeq(Val(solution).assignments, LAMBDA a : a.line_no = line)

\* C6: a returned solution holds exactly one assignment for every
\* goes_to_solver line and none for another line, and every assignment is
\* one of its line's eligible candidates (supplier_id, pack_code, price).
C6_OneEligibleCandidatePerLine ==
    ~IsNone(solution) =>
        /\ Val(solution).status \in {"OPTIMAL", "FEASIBLE"}
        /\ \A line \in SolverLines : Len(AssignmentsOf(line)) = 1
        /\ \A k \in DOMAIN Val(solution).assignments :
              LET a == Val(solution).assignments[k]
              IN  /\ a.line_no \in SolverLines
                  /\ \E i \in DOMAIN Items :
                        /\ Items[i].line_no = a.line_no
                        /\ \E j \in DOMAIN Items[i].candidates :
                              LET c == Items[i].candidates[j]
                              IN  /\ c.eligible_for_solver
                                  /\ c.supplier_id = a.supplier_id
                                  /\ c.pack_code = a.pack_code
                                  /\ c.price = a.price

\* C6 witness: a solution for an order of two lines: one goes to the solver
\* with two eligible candidates, the other does not go to the solver.
C6_Witness ==
    /\ ~IsNone(solution)
    /\ Len(Val(solution).assignments) = 1
    /\ Len(Items) = 2
    /\ \E i \in DOMAIN Items :
          Items[i].goes_to_solver /\ Len(Items[i].candidates) = 2

\* The order total of a supplier in the returned solution, in cents: the sum
\* of price x qty over the lines assigned to it.
AssignedAmount(s) ==
    LET mine == SelectSeq(Val(solution).assignments,
                          LAMBDA a : a.supplier_id = s)
    IN  SeqSum([k \in DOMAIN mine |-> mine[k].price * mine[k].qty])

\* C7: in a returned solution every used supplier with a min_order_amount
\* has an assigned total (price x qty over its lines) of at least that
\* amount.
C7_MinOrderAmountMet ==
    ~IsNone(solution) =>
        \A s \in Range(Val(solution).suppliers_used) :
            Truthy(Val(enriched).suppliers[s].min_order_amount) =>
                AssignedAmount(s)
                    >= Val(Val(enriched).suppliers[s].min_order_amount)

\* C7 witness: a solution uses a supplier with a min order amount for two
\* lines.
C7_Witness ==
    /\ ~IsNone(solution)
    /\ \E s \in Range(Val(solution).suppliers_used) :
          /\ Truthy(Val(enriched).suppliers[s].min_order_amount)
          /\ Len(SelectSeq(Val(solution).assignments,
                           LAMBDA a : a.supplier_id = s)) = 2

\* C8: in a returned solution the supplier of every assignment is in
\* suppliers_used.
C8_AssignedSupplierIsUsed ==
    ~IsNone(solution) =>
        \A k \in DOMAIN Val(solution).assignments :
            Val(solution).assignments[k].supplier_id
                \in Range(Val(solution).suppliers_used)

\* C8 witness: a solution assigns two lines to two different suppliers.
C8_Witness ==
    /\ ~IsNone(solution)
    /\ Len(Val(solution).assignments) = 2
    /\ Val(solution).assignments[1].supplier_id
          # Val(solution).assignments[2].supplier_id

\* For the orders of the family small enough to enumerate, the solutions of
\* the reduced description are those of the full assignment model.
ScaleAgreesWithModel ==
    scale_lines <= MaxLines - 1 =>
        LET e == FilterAndClassifyCandidates(config, payload)
            Summary(sol) ==
                [status |-> sol.status,
                 objective_value |-> sol.objective_value,
                 num_suppliers |-> sol.num_suppliers,
                 num_alike |->
                     Len(SelectSeq(sol.assignments,
                             LAMBDA a : a.pack_match_status = "alike")),
                 suppliers_used |-> sol.suppliers_used]
        IN  {Summary(ExtractSolution(config, e, answer)) :
                answer \in {b \in BackendAnswers(config, e) :
                               b.status \in {"OPTIMAL", "FEASIBLE"}}}
            = ScaleSolutions(config, scale_lines)

\* C9: in both optimization modes a solution reported OPTIMAL uses the
\* fewest suppliers of all satisfying assignments, whatever the number of
\* lines and candidates.
C9_OptimalUsesFewestSuppliers ==
    (~IsNone(scale_solution) /\ Val(scale_solution).status = "OPTIMAL") =>
        Val(scale_solution).num_suppliers = ScaleMinSuppliers(scale_lines)

\* C9 witness: an OPTIMAL solution in container_match mode for an order with
\* 'alike' candidates that uses the fewest suppliers and keeps the 'alike'
\* containers.
C9_Witness ==
    /\ ~IsNone(scale_solution)
    /\ Val(scale_solution).status = "OPTIMAL"
    /\ config.optimization_priority = "container_match"
    /\ Val(scale_solution).num_alike > 0
    /\ Val(scale_solution).num_suppliers = 1

\* A line has a min order amount risk annotation on one of its candidates.
HasRiskAnnotation(item) ==
    \E j \in DOMAIN item.candidates_all :
        item.candidates_all[j].min_order_amount_risk

SolverFailed ==
    /\ pc = "done"
    /\ Val(result).error = Some("solver_infeasible")

\* C10: when the solver returns no solution and some candidate carries a
\* min order amount risk, every line with such a candidate leaves
\* fully_closed and partially_closed and is in cannot_close with reason
\* min_order_amount_not_met, the counts are those of the new buckets, the
\* returned order status is cannot_close, and every other line keeps its
\* bucket.
C10_RiskLinesDemoted ==
    (SolverFailed /\ \E i \in DOMAIN Items : HasRiskAnnotation(Items[i])) =>
        LET sd == Val(result).status_details
            lines == BucketLines(sd.breakdown)
        IN  /\ Val(result).order_status = "cannot_close"
            /\ sd.order_status = "cannot_close"
            /\ sd = Val(status_details)
            /\ sd.counts =
                  [fully_closed |-> Cardinality(lines.fully_closed),
                   partially_closed |-> Cardinality(lines.partially_closed),
                   cannot_close |-> Cardinality(lines.cannot_close)]
            /\ \A i \in DOMAIN Items :
                  LET line == Items[i].line_no
                  IN  IF HasRiskAnnotation(Items[i])
                      THEN /\ ~InFully(sd, line)
                           /\ ~InPartially(sd, line)
                           /\ "min_order_amount_not_met"
                                 \in Range(CannotCloseReasons(sd, line))
                      ELSE /\ InFully(sd, line) <=> InFully(Determined, line)
                           /\ InPartially(sd, line)
                                 <=> InPartially(Determined, line)
                           /\ CannotCloseReasons(sd, line)
                                 = CannotCloseReasons(Determined, line)

\* C10 witness: the solver failed on an order of two lines; one has a risk
\* annotation, was fully_closed and is now in cannot_close, the other has no
\* annotation and is still fully_closed.
C10_Witness ==
    /\ SolverFailed
    /\ \E i, k \in DOMAIN Items :
          /\ HasRiskAnnotation(Items[i])
          /\ InFully(Determined, Items[i].line_no)
          /\ InCannot(Val(status_details), Items[i].line_no)
          /\ ~HasRiskAnnotation(Items[k])
          /\ InFully(Val(status_details), Items[k].line_no)

\* The min_order_amount_not_met entries the reconciliation appended for a
\* line.
ShortfallEntries(line) ==
    SelectSeq(Val(status_details).breakdown.cannot_close,
              LAMBDA e : e.line_no = line
                         /\ e.reason = "min_order_amount_not_met")

\* The delta_amount values of the risk annotations of a line.
RiskDeltas(item) ==
    {Val(item.candidates_all[j].min_order_amount_details).delta_amount :
        j \in {k \in DOMAIN item.candidates_all :
                  item.candidates_all[k].min_order_amount_risk}}

\* C11: after a failed solve the shortfall list holds one entry for every
\* line with a risk annotation, the one with the smallest delta_amount of
\* the line's annotations, so the reconciliation appends at most one
\* min_order_amount_not_met entry per line.
C11_OneShortfallPerLine ==
    SolverFailed =>
        \A i \in DOMAIN Items :
            LET es == ShortfallEntries(Items[i].line_no)
            IN  IF HasRiskAnnotation(Items[i])
                THEN /\ Len(es) = 1
                     /\ Val(es[1].details).delta_amount
                           = SetMin(RiskDeltas(Items[i]))
                ELSE es = <<>>

\* C11 witness: the solver failed on an order with a line whose two
\* candidates of one supplier both carry a risk annotation, with different
\* delta_amount values.
C11_Witness ==
    /\ SolverFailed
    /\ \E i \in DOMAIN Items :
          /\ Cardinality(RiskDeltas(Items[i])) = 2
          /\ Len(ShortfallEntries(Items[i].line_no)) = 1

Succeeded == pc = "done" /\ Val(result).success

\* An assignment reduced to what record_assignment stores of it.
Stored(a, price) ==
    [line_no |-> a.line_no, supplier_id |-> a.supplier_id,
     pack_code |-> a.pack_code, unit_price |-> price]

\* C12: when the solver returns a solution, the order status and the
\* status details process_order returns are those determine_status computed
\* before the solve, and the recorded and reported assignments are those of
\* the solver's solution.
C12_SuccessPassesThrough ==
    Succeeded =>
        LET sol == Val(solution).assignments
            out == Val(Val(result).assignments)
        IN  /\ Val(result).order_status = DetermineStatus(Val(enriched))[1]
            /\ Val(result).status_details = Determined
            /\ Val(status_details) = Determined
            /\ Val(recorded) = [k \in DOMAIN sol |-> Stored(sol[k], sol[k].price)]
            /\ Len(out) = Len(sol)
            /\ {Stored(out[k], out[k].unit_price) : k \in DOMAIN out}
                  = {Stored(sol[k], sol[k].price) : k \in DOMAIN sol}

\* C12 witness: a successful run whose solution assigns two lines, for an
\* order whose status is partially_closed.
C12_Witness ==
    /\ Succeeded
    /\ Len(Val(solution).assignments) = 2
    /\ Val(result).order_status = "partially_closed"

Failed == pc = "done" /\ ~Val(result).success

\* C13: a failure result of process_order has success = false and no
\* assignments; its error is no_items_for_solver exactly when no line goes
\* to the solver and solver_infeasible otherwise, when the solver returned
\* no solution; it carries the order status, status details with a
\* breakdown and its counts, diagnostics for every line and solver details.
\* A finished run has a result; only a failing model build raises.
C13_FailureResultPopulated ==
    /\ Failed =>
          LET res == Val(result)
              lines == BucketLines(res.status_details.breakdown)
          IN  /\ res.assignments = None
              /\ res.error = IF SolverLines = {}
                             THEN Some("no_items_for_solver")
                             ELSE Some("solver_infeasible")
              /\ res.error = Some("solver_infeasible") => IsNone(solution)
              /\ res.order_status \in OrderStatus
              /\ res.status_details.order_status = res.order_status
              /\ Partitioned(res.status_details)
              /\ res.status_details.counts =
                    [fully_closed |-> Cardinality(lines.fully_closed),
                     partially_closed |-> Cardinality(lines.partially_closed),
                     cannot_close |-> Cardinality(lines.cannot_close)]
              /\ Len(res.diagnostics) = Len(Items)
              /\ \A i \in DOMAIN Items :
                    /\ res.diagnostics[i].line_no = Items[i].line_no
                    /\ res.diagnostics[i].match_status = Items[i].match.status
              /\ res.solver_details.status
                    \in {"SKIPPED", "INFEASIBLE", "UNKNOWN"}
              /\ res.solver_details.status = "SKIPPED"
                    <=> res.error = Some("no_items_for_solver")
    /\ pc = "done" => ~IsNone(result)
    /\ pc = "raised" => ModelBuildRaises(Val(enriched))

\* C13 witness: the failure result of an infeasible model, for an order of
\* two lines of which one does not go to the solver.
C13_Witness ==
    /\ Failed
    /\ Len(Items) = 2
    /\ Val(result).error = Some("solver_infeasible")
    /\ Val(result).solver_details.status = "INFEASIBLE"
    /\ \E i \in DOMAIN Items : ~Items[i].goes_to_solver

\* The position of a stage in the pipeline of process_order.
StageRank(p) ==
    CASE p = "idle" -> 0
      [] p = "classify" -> 1
      [] p = "status" -> 2
      [] p = "dispatch" -> 3
      [] p \in {"solved", "raised"} -> 4
      [] p = "done" -> 5

SolverCalled == last_solver_info # EmptySolverInfo

\* C14: within a run the stages happen in the order classify, determine
\* status, solve, reconcile or record; every step moves to a later stage, so
\* the solver is called at most once, and it is called only when a line
\* goes to the solver; assignments are recorded only after the backend
\* answered OPTIMAL or FEASIBLE, and after any other answer there is no
\* solution, nothing recorded and no assignments in the result.
C14_StagesInOrder ==
    /\ [][/\ StageRank(pc') > StageRank(pc)
          /\ pc' \in {"solved", "raised"} =>
                pc = "dispatch" /\ SolverLines # {}
          /\ pc' = "done" => pc \in {"dispatch", "solved"}
          /\ recorded' # recorded => pc = "solved" /\ ~IsNone(solution)]_vars
    /\ [](/\ pc \in {"idle", "classify"} => IsNone(enriched)
          /\ pc \in {"idle", "classify", "status"} => IsNone(status_details)
          /\ (SolverCalled /\ pc \in {"solved", "done"}) =>
                /\ SolverLines # {}
                /\ ~IsNone(solution)
                      <=> last_solver_info.status \in {"OPTIMAL", "FEASIBLE"}
          /\ ~IsNone(recorded) =>
                /\ pc = "done"
                /\ SolverCalled
                /\ last_solver_info.status \in {"OPTIMAL", "FEASIBLE"}
          /\ (pc = "done" /\ IsNone(recorded)) =>
                Val(result).assignments = None)

\* C14 witness: a run ended after the backend answered UNKNOWN for a model
\* with a satisfying assignment; nothing is recorded.
C14_Witness ==
    /\ pc = "done"
    /\ SolverCalled
    /\ last_solver_info.status = "UNKNOWN"
    /\ FeasibleSet(Val(enriched)) # {}
    /\ IsNone(recorded)
    /\ Val(result).assignments = None

\* The classified candidates of the order, each with its line.
ClassifiedCandidates ==
    UNION {{[item |-> Items[i], cand |-> Items[i].candidates_all[j], i |-> i,
             j |-> j] : j \in DOMAIN Items[i].candidates_all} :
              i \in DOMAIN Items}

\* available_qty is specified and below the requested quantity.
Short(e) ==
    /\ ~IsNone(e.cand.availability_qty)
    /\ Val(e.cand.availability_qty) < e.item.qty

OwnSolverInfos ==
    {SolveAssignmentWith(config, Val(enriched), answer)[2] :
        answer \in BackendAnswers(config, Val(enriched))}
    \cup {[SolveAssignmentWith(config, Val(enriched), answer)[2] EXCEPT
              !.diagnostics =
                  Some(CalculateMinOrderShortfalls(Val(enriched)))] :
             answer \in BackendAnswers(config, Val(enriched))}

\* C17: whatever calls were made before on the same processor, a finished
\* call reports only what derives from its own payload: the enriched payload
\* is the classification of this payload, the status is the one determined
\* for it (or its reconciliation), after a failure last_solution is None and
\* solver_details is the SKIPPED record or the solver information of this
\* call, after a success last_solution is this call's solution.
C17_NoCrossRunState ==
    pc = "done" =>
        /\ Val(enriched) = FilterAndClassifyCandidates(config, payload)
        /\ Val(result).diagnostics \in
               {<<>>, BuildLineDiagnostics(
                          FilterAndClassifyCandidates(config, payload))}
        /\ ~Val(result).success =>
              /\ last_solution = None
              /\ Val(result).assignments = None
              /\ Val(result).error = Some("no_items_for_solver") =>
                    /\ last_solver_info = EmptySolverInfo
                    /\ Val(result).solver_details.status = "SKIPPED"
                    /\ Val(result).order_status
                          = DetermineStatus(Val(enriched))[1]
              /\ Val(result).error = Some("solver_infeasible") =>
                    /\ Val(result).solver_details = last_solver_info
                    /\ last_solver_info \in OwnSolverInfos
                    /\ last_solver_info.status \notin {"OPTIMAL", "FEASIBLE"}
        /\ Val(result).success =>
              /\ last_solution = solution
              /\ Val(result).solver_details \in OwnSolverInfos
              /\ Val(result).order_status = DetermineStatus(Val(enriched))[1]
              /\ \A k \in DOMAIN Val(Val(result).assignments) :
                    Val(Val(result).assignments)[k].line_no \in
                        {payload.items[i].line_no : i \in DOMAIN payload.items}

\* C17 witness: the first call on the processor was a success, the second
\* call has ended in no_items_for_solver, last_solution is None and
\* last_solver_info is empty.
C17_Witness ==
    /\ calls = <<"success">>
    /\ pc = "done"
    /\ Val(result).error = Some("no_items_for_solver")
    /\ last_solution = None
    /\ last_solver_info = EmptySolverInfo

\* Candidate j of line i of the raw payload and its classification.
RawCandidate(i, j) == payload.items[i].candidates[j]
ClassifiedCandidate(i, j) == Items[i].candidates_all[j]
CandidateIndexes ==
    {<<i, j>> \in (DOMAIN payload.items) \X (1..MaxCands) :
        j \in DOMAIN payload.items[i].candidates}

\* C18: a candidate whose available_qty is unspecified is available with
\* sufficient_qty true.  A candidate whose specified available_qty is below
\* the requested quantity stays available (is_available, not
\* sufficient_qty, shortage recorded, no insufficient_quantity reason)
\* exactly when allow_insufficient is set and the shortage fraction is at
\* most insufficient_threshold; otherwise it is not available and carries
\* insufficient_quantity.
C18_ShortCandidateTolerated ==
    Classified =>
        \A ij \in CandidateIndexes :
            LET qty == payload.items[ij[1]].qty
                a == RawCandidate(ij[1], ij[2]).availability_qty
                c == ClassifiedCandidate(ij[1], ij[2])
                tolerated ==
                    /\ config.allow_insufficient
                    /\ (qty - Val(a)) * 100
                          <= config.insufficient_threshold * qty
                stays ==
                    /\ c.is_available
                    /\ ~c.sufficient_qty
                    /\ c.shortage_pct # None
                    /\ "insufficient_quantity" \notin Range(c.rejection_reasons)
                rejected ==
                    /\ ~c.is_available
                    /\ "insufficient_quantity" \in Range(c.rejection_reasons)
            IN  /\ IsNone(a) =>
                      /\ c.is_available
                      /\ c.sufficient_qty
                      /\ "insufficient_quantity"
                             \notin Range(c.rejection_reasons)
                /\ (~IsNone(a) /\ Val(a) < qty) =>
                      /\ tolerated <=> stays
                      /\ ~tolerated <=> rejected

\* C18 witness: with allow_insufficient set, a line of 10 units has been
\* classified with a candidate offering 8 (a shortage of exactly the
\* threshold, tolerated) and a candidate offering 4 (rejected with
\* insufficient_quantity).
C18_Witness ==
    /\ Classified
    /\ config.allow_insufficient
    /\ \E i \in DOMAIN Items :
          /\ Items[i].qty = 10
          /\ \E j, k \in DOMAIN Items[i].candidates_all :
                /\ Items[i].candidates_all[j].availability_qty = Some(8)
                /\ Items[i].candidates_all[j].is_available
                /\ ~Items[i].candidates_all[j].sufficient_qty
                /\ Items[i].candidates_all[k].availability_qty = Some(4)
                /\ ~Items[i].candidates_all[k].is_available

\* The lowest price among all raw candidates of line i.
MinPrice(i) ==
    SetMin({payload.items[i].candidates[k].price :
               k \in DOMAIN payload.items[i].candidates})

\* C19: with a price margin configured a candidate carries
\* price_above_margin exactly when its price exceeds
\* min_price * (1 + margin), min_price being the lowest price among all raw
\* candidates of the line; without a margin no candidate carries it.
C19_AboveMarginIffExceeds ==
    Classified =>
        \A ij \in CandidateIndexes :
            ("price_above_margin"
                 \in Range(ClassifiedCandidate(ij[1], ij[2]).rejection_reasons))
            <=> /\ ~IsNone(config.price_margin)
                /\ RawCandidate(ij[1], ij[2]).price * 100
                      > MinPrice(ij[1]) * (100 + Val(config.price_margin))

\* C19 witness: with a margin of 10% a line has candidates priced 0.28 and
\* 0.31; 0.31 exceeds 0.28 * 1.10 = 0.308, yet the candidate at 0.31 does
\* not carry price_above_margin (max_allowed_price is 0.31).
C19_Witness ==
    /\ Classified
    /\ config.price_margin = Some(10)
    /\ \E i \in DOMAIN Items :
          /\ Items[i].candidates_all # <<>>
          /\ MinPrice(i) = 28
          /\ Items[i].max_allowed_price = Some(31)
          /\ \E j \in DOMAIN Items[i].candidates_all :
                /\ Items[i].candidates_all[j].price = 31
                /\ Items[i].candidates_all[j].rejection_reasons = <<>>

\* The min_order_amount the supplier of raw candidate j of line i defines,
\* or None.
DefinedMinOrderAmount(i, j) ==
    SupplierRulesOf(RawCandidate(i, j), payload.suppliers).min_order_amount

\* C20: a candidate has min_order_amount_risk exactly when its supplier
\* defines a min_order_amount and price * requested_qty is below it; the
\* annotation then carries delta_amount = min_order_amount - price * qty,
\* which is positive, and suggested_qty_increase = ceil(delta_amount /
\* price), and ordering requested_qty + suggested_qty_increase at that price
\* reaches the minimum; the risk is among the candidate's reason details and
\* in the line's min_order_amount_risks.
C20_RiskIffBelowMinimum ==
    Classified =>
        \A ij \in CandidateIndexes :
            LET qty == payload.items[ij[1]].qty
                price == RawCandidate(ij[1], ij[2]).price
                moa == DefinedMinOrderAmount(ij[1], ij[2])
                c == ClassifiedCandidate(ij[1], ij[2])
                d == Val(c.min_order_amount_details)
            IN  /\ c.min_order_amount_risk
                      <=> (~IsNone(moa) /\ price * qty < Val(moa))
                /\ c.min_order_amount_risk =>
                      /\ d.delta_amount = Val(moa) - price * qty
                      /\ d.delta_amount > 0
                      /\ d.suggested_qty_increase
                            = Some(CeilDiv(d.delta_amount, price))
                      /\ price * (qty + Val(d.suggested_qty_increase))
                            >= Val(moa)
                      /\ "min_order_amount_risk" \in FindingCodes(c)
                      /\ \E k \in DOMAIN Items[ij[1]].min_order_amount_risks :
                            Items[ij[1]].min_order_amount_risks[k].details = d

\* C20 witness: a line of 3 units has a candidate priced 0.29 of a supplier
\* whose min_order_amount is 0.87; the line total equals the minimum, yet
\* the candidate carries the risk with delta_amount 0.00 and a suggested
\* increase of 1.
C20_Witness ==
    /\ Classified
    /\ \E ij \in CandidateIndexes :
          /\ payload.items[ij[1]].qty = 3
          /\ RawCandidate(ij[1], ij[2]).price = 29
          /\ DefinedMinOrderAmount(ij[1], ij[2]) = Some(87)
          /\ ClassifiedCandidate(ij[1], ij[2]).min_order_amount_risk
          /\ Val(ClassifiedCandidate(ij[1], ij[2]).min_order_amount_details)
                 .delta_amount = 0
          /\ Val(ClassifiedCandidate(ij[1], ij[2]).min_order_amount_details)
                 .suggested_qty_increase = Some(1)

\* The lines with a resolved match and raw candidates that do not go to the
\* solver.
RejectedLines ==
    {i \in DOMAIN Items :
        /\ Items[i].match.status \in {"ok", "manual_override"}
        /\ Items[i].candidates_raw_count > 0
        /\ ~Items[i].goes_to_solver}

\* The codes of all findings on the candidates of line i, the min order
\* amount risk included, in the fixed priority order.
FindingCodesInPriority(i) ==
    LET codes == UNION {FindingCodes(Items[i].candidates_all[j]) :
                           j \in DOMAIN Items[i].candidates_all}
    IN  SelectSeq(ReasonPriority, LAMBDA code : code \in codes)

\* C21: once the status is determined, a line with a resolved match and raw
\* candidates that does not go to the solver has exactly one cannot_close
\* entry per finding code present on any of its candidates,
\* min_order_amount_risk included, in the fixed priority order; the entry of
\* a code merges one detail per candidate carrying the code, and
\* no_available_candidates appears only when no candidate carries a code.
C21_OneEntryPerReasonCode ==
    pc = "dispatch" =>
        \A i \in RejectedLines :
            LET sd == Val(status_details)
                es == SelectSeq(sd.breakdown.cannot_close,
                                LAMBDA e : e.line_no = Items[i].line_no)
                expected == FindingCodesInPriority(i)
            IN  /\ CannotCloseReasons(sd, Items[i].line_no)
                      = (IF expected = <<>>
                         THEN <<"no_available_candidates">> ELSE expected)
                /\ \A k \in DOMAIN es :
                      es[k].reason # "no_available_candidates" =>
                          Len(es[k].details)
                              = Cardinality(
                                    {j \in DOMAIN Items[i].candidates_all :
                                        es[k].reason \in FindingCodes(
                                            Items[i].candidates_all[j])})

\* C21 witness: the only candidate of a rejected line is below the
\* supplier's min line qty and carries the min order amount risk; the line's
\* cannot_close entries are below_min_line_qty alone.
C21_Witness ==
    /\ pc = "dispatch"
    /\ \E i \in RejectedLines :
          /\ Len(Items[i].candidates_all) = 1
          /\ FindingCodes(Items[i].candidates_all[1])
                = {"below_min_line_qty", "min_order_amount_risk"}
          /\ CannotCloseReasons(Val(status_details), Items[i].line_no)
                = <<"below_min_line_qty">>

\* The count a line's rejection_summary holds for a code (0 when absent).
SummaryCount(item, code) ==
    IF code \in DOMAIN item.rejection_summary
    THEN item.rejection_summary[code] ELSE 0

\* The sum of all counts of a line's rejection_summary.
SummaryTotal(item) ==
    SeqSum([k \in DOMAIN ReasonPriority |->
               SummaryCount(item, ReasonPriority[k])])

\* C22: in each line's rejection_summary every rejected candidate is counted
\* once, under the first of its rejection reasons, so the counts add up to
\* the number of rejected candidates of the line
\* (candidates_total_count - candidates_available_count).
C22_SummaryCountsPrimaryReason ==
    Classified =>
        \A i \in DOMAIN Items :
            /\ \A code \in HardReasons :
                  SummaryCount(Items[i], code)
                      = Cardinality(
                            {j \in DOMAIN Items[i].candidates_all :
                                Items[i].candidates_all[j].rejected_reason
                                    = Some(code)})
            /\ SummaryTotal(Items[i])
                  = Items[i].candidates_total_count
                        - Items[i].candidates_available_count

\* C22 witness: a line's only candidate is rejected for two reasons and the
\* line's rejection_summary counts it under both: the counts add up to 2
\* for one rejected candidate.
C22_Witness ==
    /\ Classified
    /\ \E i \in DOMAIN Items :
          /\ Items[i].candidates_total_count = 1
          /\ Items[i].candidates_available_count = 0
          /\ Len(Items[i].candidates_all[1].rejection_reasons) = 2
          /\ SummaryTotal(Items[i]) = 2

\* The positions <<i, j>> of the eligible candidates of the lines that go to
\* the solver, and what the model knows of such a candidate.
ModelCandidateIndexes ==
    {ij \in (DOMAIN Items) \X (1..MaxCands) :
        /\ Items[ij[1]].goes_to_solver
        /\ ij[2] \in DOMAIN Items[ij[1]].candidates}

ModelCandidate(ij) ==
    [line_no |-> Items[ij[1]].line_no,
     qty |-> Items[ij[1]].qty,
     supplier_id |-> Items[ij[1]].candidates[ij[2]].supplier_id,
     unit_price |-> Items[ij[1]].candidates[ij[2]].price]

CountsAgree(sd) ==
    LET lines == BucketLines(sd.breakdown)
    IN  /\ sd.counts.fully_closed = Cardinality(lines.fully_closed)
        /\ sd.counts.partially_closed = Cardinality(lines.partially_closed)
        /\ sd.counts.cannot_close = Cardinality(lines.cannot_close)
        /\ sd.counts.fully_closed + sd.counts.partially_closed
              + sd.counts.cannot_close = Len(payload.items)

\* C24: from determine_status on, through the reconciliation and in the
\* returned result, status_details.counts holds the number of distinct
\* lines of each bucket of the current breakdown, and the three counts add
\* up to the number of order lines.
C24_CountsFollowBreakdown ==
    /\ ~IsNone(status_details) => CountsAgree(Val(status_details))
    /\ ~IsNone(result) => CountsAgree(Val(result).status_details)

\* C24 witness: the reconciliation has demoted the only line of the order
\* with two cannot_close entries, and the cannot_close count is 1.
C24_Witness ==
    /\ SolverFailed
    /\ Len(payload.items) = 1
    /\ Len(Val(result).status_details.breakdown.cannot_close) = 2
    /\ Val(result).status_details.counts.cannot_close = 1
    /\ Val(result).status_details.counts.fully_closed = 0

\* C25: classification, status evaluation and the building of the
\* assignment model never raise, whatever the business-rule outcome: a
\* call never ends in an exception.
C25_NeverRaises == pc # "raised"

\* C25 witness: classification and status evaluation have completed for a
\* line whose eligible candidate is of a supplier without an entry in the
\* suppliers list (the candidate was classified as unconstrained and the
\* line goes to the solver), and the model building has raised.
C25_Witness ==
    /\ pc = "raised"
    /\ ~IsNone(order_status)
    /\ \E ij \in ModelCandidateIndexes :
          /\ ModelCandidate(ij).supplier_id \notin DOMAIN payload.suppliers
          /\ Items[ij[1]].candidates[ij[2]].rejection_reasons = <<>>
    /\ IsNone(result)

\* The line numbers that have an assignment in the returned result.
AssignedLines ==
    {Val(Val(result).assignments)[k].line_no :
        k \in DOMAIN Val(Val(result).assignments)}

\* C26: on a successful run the lines with an assignment are exactly the
\* lines of fully_closed and partially_closed of the returned breakdown, and
\* no line of cannot_close has an assignment.
C26_AssignedLinesAreClosedLines ==
    Succeeded =>
        LET lines == BucketLines(Val(result).status_details.breakdown)
        IN  /\ AssignedLines = lines.fully_closed \cup lines.partially_closed
            /\ AssignedLines \cap lines.cannot_close = {}

\* C26 witness: a successful run of a two-line order in which one line is
\* assigned and the other, which has an eligible candidate but no resolved
\* match, is in cannot_close without an assignment.
C26_Witness ==
    /\ Succeeded
    /\ Len(Items) = 2
    /\ Cardinality(AssignedLines) = 1
    /\ \E i \in DOMAIN Items :
          /\ Items[i].candidates # <<>>
          /\ Items[i].line_no \notin AssignedLines
          /\ Items[i].line_no \in
                 BucketLines(Val(result).status_details.breakdown).cannot_close

\* C27: on a successful run the assignment of every line reported in
\* fully_closed carries no shortage_pct, and every assignment that carries a
\* shortage_pct is of a line reported in partially_closed.
C27_FullyClosedAssignedInFull ==
    Succeeded =>
        LET lines == BucketLines(Val(result).status_details.breakdown)
            as == Val(Val(result).assignments)
        IN  \A k \in DOMAIN as :
                /\ as[k].line_no \in lines.fully_closed
                      => as[k].shortage_pct = None
                /\ as[k].shortage_pct # None
                      => as[k].line_no \in lines.partially_closed

\* C27 witness: the backend answered OPTIMAL, the line is reported in
\* fully_closed because one of its two eligible candidates has sufficient
\* quantity, and the assignment of the line is the other candidate, with a
\* shortage of 20%.
C27_Witness ==
    /\ Succeeded
    /\ Val(result).solver_details.status = "OPTIMAL"
    /\ Val(result).order_status = "fully_closed"
    /\ \E k \in DOMAIN Val(Val(result).assignments) :
          /\ Val(Val(result).assignments)[k].shortage_pct = Some(2000)
          /\ Val(Val(result).assignments)[k].line_no
                \in Range(Val(result).status_details.breakdown.fully_closed)

\* Some solver-eligible candidate of some line carries the min order amount
\* risk.
EligibleRisk ==
    \E i \in DOMAIN Items : \E j \in DOMAIN Items[i].candidates :
        Items[i].candidates[j].min_order_amount_risk

\* C28: when the assignment model has been built for an order in which no
\* solver-eligible candidate carries the min order amount risk, the
\* exactly-one, linking and min order amount constraints have a common
\* solution; hence a backend answer INFEASIBLE occurs only for orders in
\* which an eligible candidate carries the risk.
C28_InfeasibleImpliesRisk ==
    (pc \in {"solved", "done"} /\ SolverCalled) =>
        /\ ~EligibleRisk => FeasibleSet(Val(enriched)) # {}
        /\ last_solver_info.status = "INFEASIBLE" => EligibleRisk

\* C28 witness: no eligible candidate of the order carries the risk, the
\* model has a min order amount constraint and the backend has found a
\* solution.
C28_Witness ==
    /\ pc = "solved"
    /\ ~EligibleRisk
    /\ last_solver_info.constraint_audit.min_order_amount # <<>>
    /\ ~IsNone(solution)

\* C29: a failure result (no_items_for_solver or solver_infeasible) always
\* reports the order status cannot_close.
C29_FailureIsCannotClose ==
    Failed => Val(result).order_status = "cannot_close"

\* C29 witness: an order without lines has ended in no_items_for_solver and
\* the result reports fully_closed.
C29_Witness ==
    /\ Failed
    /\ payload.items = <<>>
    /\ Val(result).error = Some("no_items_for_solver")
    /\ Val(result).order_status = "fully_closed"

\* A second case of C29: the backend gave no solution (UNKNOWN) for an order
\* without any risk annotation, and the solver_infeasible result keeps the
\* status fully_closed determined before the solve.
C29_UnknownKeepsStatus ==
    /\ SolverFailed
    /\ Val(result).solver_details.status = "UNKNOWN"
    /\ \A i \in DOMAIN Items : ~HasRiskAnnotation(Items[i])
    /\ Val(result).order_status = "fully_closed"

\* The suppliers that have at least one assignment in the solution.
AssignedSuppliers ==
    {Val(solution).assignments[k].supplier_id :
        k \in DOMAIN Val(solution).assignments}

\* C30: in every solution returned by solve_assignment suppliers_used is
\* exactly the set of suppliers with at least one assignment and
\* num_suppliers is the number of distinct suppliers of the assignments.
C30_UsedSuppliersAreAssigned ==
    ~IsNone(solution) =>
        /\ Range(Val(solution).suppliers_used) = AssignedSuppliers
        /\ Val(solution).num_suppliers = Cardinality(AssignedSuppliers)

\* C30 witness: the backend answered FEASIBLE with the supplier variable of
\* a supplier set although none of its candidates is selected; the solution
\* reports two suppliers used and assigns lines to one supplier only.
C30_Witness ==
    /\ ~IsNone(solution)
    /\ Val(solution).status = "FEASIBLE"
    /\ Val(solution).num_suppliers = 2
    /\ Cardinality(AssignedSuppliers) = 1
    /\ AssignedSuppliers # Range(Val(solution).suppliers_used)

\* For the answers proven optimal the reported suppliers are the assigned
\* ones: a supplier variable set without a selected candidate would add to
\* the objective.
C30_OptimalUsedAreAssigned ==
    (~IsNone(solution) /\ Val(solution).status = "OPTIMAL") =>
        /\ Range(Val(solution).suppliers_used) = AssignedSuppliers
        /\ Val(solution).num_suppliers = Cardinality(AssignedSuppliers)

====
